---------------------------- MODULE Spec2Model ----------------------------
(***************************************************************************)
(* A model of the complete-run pipeline: filter.FilterResults selects run  *)
(* IDs from the result log, match.MatchResults validates them against the  *)
(* remote service with concurrent workers, complete.CompleteRuns posts the *)
(* completion calls and keeps the error ledger.                            *)
(*                                                                         *)
(* End times are strings compared with Go's string order.  They are        *)
(* modelled by their rank in that order: 0 is the empty string "" (the     *)
(* least string), 1..MaxTime are increasing non-empty time stamps.         *)
(* File contents are sequences of one-character strings.                   *)
(***************************************************************************)
EXTENDS Integers, Sequences, FiniteSets, TLC

\* ------------------------------------------------------------------ bounds
\* Longest result log (number of records of results.json).
MaxLog == 2
\* Run IDs of the log are 1..MaxRun (the remote service numbers runs from 1).
MaxRun == 2
\* Case IDs are 1..MaxCase.
MaxCase == 2
\* Non-empty end times are 1..MaxTime; 0 is the empty end time.
MaxTime == 2
\* Longest authoritative case list the remote service answers with.
MaxRemoteCases == 2

RunIDs == 1..MaxRun
CaseIDs == 1..MaxCase
EndTimes == 0..MaxTime
Statuses == {"passed", "failed"}

\* filter.TestResult, the fields the decision logic reads.
TestResult == [runID : RunIDs, caseID : CaseIDs, status : Statuses, endTime : EndTimes]

\* Every result log of at most n records.
Logs(n) == UNION {[1..k -> TestResult] : k \in 0..n}

Range(s) == {s[i] : i \in DOMAIN s}

\* Every iteration order a Go map range may take over the key set S.
Orders(S) == {o \in [1..Cardinality(S) -> S] : \A i, j \in DOMAIN o : i # j => o[i] # o[j]}

VARIABLES
  log,             \* results.json: the sequence of result records
  stage,           \* position of main: "filter", "match", "complete", "done"
  todo,            \* processResults: keys of runResults the range has not visited
  selectedRunIDs,  \* processResults: the accumulator, before the sort
  outs,            \* the sequences returned by the finished calls of processResults
  filteredTxt,     \* filtered.txt, a string
  runIDs,          \* MatchResults: the run IDs read from filtered.txt
  mIdx,            \* MatchResults: index of the next run ID of the spawning loop
  wpc,             \* MatchResults: position of the goroutine of each index
  resp,            \* what the remote service answered to the fetch of each index
  validRunIDs,     \* MatchResults: the accumulator guarded by mu
  semaphore,       \* MatchResults: number of slots held in the channel
  finalTxt,        \* final.txt, a string
  cRunIDs,         \* CompleteRuns: the run IDs read from final.txt
  cIdx,            \* CompleteRuns: index of the next run ID of the loop
  completeCalls,   \* the run IDs completeRun was called for, in call order
  errorsTxt,       \* errors.txt: the run ID of each line, in file order
  config,          \* retryableHTTPRequest: the RetryConfig it was called with
  rpc,             \* retryableHTTPRequest: "idle", "do", "sleep" or "returned"
  attempt,         \* retryableHTTPRequest: the loop variable
  lastErr,         \* retryableHTTPRequest: the error of the latest httpClient.Do
  respStatus,      \* retryableHTTPRequest: status code of resp, 0 for a nil resp
  outcomes,        \* what each request sent so far came to, in order
  sleeps,          \* the delays slept so far, in milliseconds, in order
  ret,             \* retryableHTTPRequest: the pair it returned
  classifyIn,      \* isRetryableError: its arguments
  classifyOut,     \* isRetryableError: whether it has returned, and its result
  fetchRequests,   \* MatchResults: per index, the HTTP requests sent for the run's cases
  callOutcomes,    \* what each call of completeRun by CompleteRuns came to, in order
  executions,      \* how many executions of the program errors.txt has seen
  ledgerBase,      \* the number of lines of errors.txt when this execution began
  pStage,          \* completeRunsInParallel: "idle", "run" or "summary"
  pRunIDs,         \* completeRunsInParallel: its argument runIDs
  pIdx,            \* completeRunsInParallel: next index of the spawning loop
  ppc,             \* completeRunsInParallel: per index, where the goroutine is
  pResult,         \* completeRunsInParallel: per index, what completeRun came to
  pSem,            \* completeRunsInParallel: elements in the semaphore channel
  tick,            \* completeRunsInParallel: a tick waits in the rateLimiter channel
  successCount,    \* completeRunsInParallel: successCount
  errorCount,      \* completeRunsInParallel: errorCount
  attemptTimeout,  \* retryableHTTPRequest: the timeout httpClient.Do applied last
  haveCredentials, \* QASE_API_TOKEN and QASE_PROJECT_CODE are both set
  fetchCalls,      \* requests FetchResults has sent
  listCalls,       \* requests fetchAllInProgressRuns has sent
  tripIn,          \* run-ID list round trip: the sequence written
  tripOut,         \* run-ID list round trip: what is read back from each file
  now,             \* time since the stage began, in steps of 200 ms
  started,         \* per stage and step, the API requests started in that step
  wakeAt,          \* MatchResults: per index, the step the goroutine's sleep ends
  cTick,           \* CompleteRuns: a tick waits in the rateLimiter channel
  callIdx,         \* CompleteRuns: index of the call of completeRun under way
  callPhase,       \* that call: "inCall" (a request is out) or "backoff"
  callAttempts,    \* that call: requests sent so far
  callWake,        \* that call: the step its backoff sleep ends
  fpc,             \* fetchAllInProgressRuns: "idle", "loop" or "returned"
  offset,          \* fetchAllInProgressRuns: offset, in pages of limit runs
  consecutiveFailures, \* fetchAllInProgressRuns: consecutiveFailures
  allInProgressRuns,   \* fetchAllInProgressRuns: allInProgressRuns
  pageAnswer       \* fetchAllInProgressRuns: what its latest request came to

filterVars == <<todo, selectedRunIDs, outs, filteredTxt>>
matchVars == <<runIDs, mIdx, wpc, resp, validRunIDs, semaphore, finalTxt>>
completeVars == <<cRunIDs, cIdx, completeCalls, errorsTxt>>
pipeVars == <<log, stage, filterVars, matchVars, completeVars>>
retryVars == <<config, rpc, attempt, lastErr, respStatus, outcomes, sleeps, ret, attemptTimeout>>
classifyVars == <<classifyIn, classifyOut>>
execVars == <<executions, ledgerBase>>
parVars == <<pStage, pRunIDs, pIdx, ppc, pResult, pSem, tick, successCount, errorCount>>
envVars == <<haveCredentials, fetchCalls, listCalls>>
tripVars == <<tripIn, tripOut>>
clockVars == <<now, cTick, callIdx, callPhase, callAttempts, callWake>>
pageVars == <<fpc, offset, consecutiveFailures, allInProgressRuns, pageAnswer>>
otherVars == <<envVars, tripVars, clockVars, pageVars>>
restVars == <<execVars, parVars, otherVars, fetchRequests, callOutcomes, started, wakeAt>>
matchAux == <<retryVars, classifyVars, execVars, parVars, otherVars, callOutcomes>>
completeAux == <<retryVars, classifyVars, execVars, parVars, otherVars, fetchRequests, started, wakeAt>>
auxVars == <<retryVars, classifyVars, restVars>>
vars == <<pipeVars, auxVars>>

\* ------------------------------------------------------------ idle parts
\* No call of retryableHTTPRequest is under way.
NoError == [kind |-> "nil", status |-> 0, at |-> 0]

NoConfig == [MaxRetries |-> 0, InitialDelay |-> 0, MaxDelay |-> 0,
             BackoffFactor |-> 0, RequestTimeout |-> 0]

NilError == [kind |-> "nil", n |-> 0, cause |-> NoError]

NoReturn == [status |-> 0, err |-> NilError]

RetryIdle ==
  /\ attemptTimeout = 0
  /\ config = NoConfig
  /\ rpc = "idle"
  /\ attempt = 0
  /\ lastErr = NoError
  /\ respStatus = 0
  /\ outcomes = <<>>
  /\ sleeps = <<>>
  /\ ret = NoReturn

ClassifyIdle ==
  /\ classifyIn = [err |-> FALSE, statusCode |-> 0]
  /\ classifyOut = [done |-> FALSE, retryable |-> FALSE]

\* completeRunsInParallel is not called.
ParIdle ==
  /\ pStage = "idle"
  /\ pRunIDs = <<>>
  /\ pIdx = 1
  /\ ppc = <<>>
  /\ pResult = <<>>
  /\ pSem = 0
  /\ tick = FALSE
  /\ successCount = 0
  /\ errorCount = 0

\* Steps of 200 ms a timed stage is followed for.
MaxClock == 7

Steps == 0..MaxClock

NoneStarted == [s \in {"match", "complete"} |-> [k \in Steps |-> 0]]

\* fetchAllInProgressRuns is not called.
NoPage == [kind |-> "none", entities |-> <<>>]

PageIdle ==
  /\ fpc = "idle"
  /\ offset = 0
  /\ consecutiveFailures = 0
  /\ allInProgressRuns = <<>>
  /\ pageAnswer = NoPage

\* The credentials are set, nothing is fetched, no list is written and read
\* back, and time stands at the beginning.
OtherIdle ==
  /\ haveCredentials = TRUE
  /\ fetchCalls = 0
  /\ listCalls = 0
  /\ tripIn = <<>>
  /\ tripOut = [done |-> FALSE, filtered |-> <<>>, final |-> <<>>]
  /\ now = 0
  /\ started = NoneStarted
  /\ wakeAt = <<>>
  /\ cTick = FALSE
  /\ callIdx = 0
  /\ callPhase = "inCall"
  /\ callAttempts = 0
  /\ callWake = 0
  /\ PageIdle

\* The first execution, on a machine without errors.txt; no request sent yet.
RestIdle ==
  /\ executions = 1
  /\ ledgerBase = 0
  /\ OtherIdle
  /\ ParIdle
  /\ fetchRequests = <<>>
  /\ callOutcomes = <<>>

\* The parts of the program that are not running in a specification.
AuxIdle == RetryIdle /\ ClassifyIdle /\ RestIdle

\* The pipeline of main is not running.
PipeIdle ==
  /\ log = <<>>
  /\ stage = "idle"
  /\ todo = {}
  /\ selectedRunIDs = <<>>
  /\ outs = <<>>
  /\ filteredTxt = <<>>
  /\ runIDs = <<>>
  /\ mIdx = 1
  /\ wpc = <<>>
  /\ resp = <<>>
  /\ validRunIDs = <<>>
  /\ semaphore = 0
  /\ finalTxt = <<>>
  /\ cRunIDs = <<>>
  /\ cIdx = 1
  /\ completeCalls = <<>>
  /\ errorsTxt = <<>>

\* ------------------------------------------------------ filter.processResults
\* runResults[runID]: the records of the run, in log order.
runResultsOf(l, runID) == SelectSeq(l, LAMBDA x : x.runID = runID)

\* The keys of runResults.
RunsOf(l) == {l[i].runID : i \in DOMAIN l}

\* caseStatuses[caseID]: the run's records of the case, in log order.
caseStatusesOf(results, caseID) == SelectSeq(results, LAMBDA x : x.caseID = caseID)

\* The keys of caseStatuses.
CasesOf(results) == {results[i].caseID : i \in DOMAIN results}

allPassed(results) == \A i \in DOMAIN results : results[i].status = "passed"

\* The four locals of the per-case loop, as declared before the inner loop.
ScanInit == [hasPassed |-> FALSE, latestPassedTime |-> 0,
             latestOverallTime |-> 0, latestOverallStatus |-> ""]

\* One iteration of the loop over caseResults.
scanResult(st, result) ==
  LET s1 == IF result.endTime > st.latestOverallTime
              THEN [st EXCEPT !.latestOverallTime = result.endTime,
                              !.latestOverallStatus = result.status]
              ELSE st
  IN  IF result.status = "passed"
        THEN [s1 EXCEPT !.hasPassed = TRUE,
                        !.latestPassedTime =
                           IF result.endTime > s1.latestPassedTime THEN result.endTime ELSE @]
        ELSE s1

RECURSIVE scanFrom(_, _, _)
scanFrom(st, caseResults, i) ==
  IF i > Len(caseResults) THEN st
  ELSE scanFrom(scanResult(st, caseResults[i]), caseResults, i + 1)

\* The loop over caseResults, from the initial locals.
scanCase(caseResults) == scanFrom(ScanInit, caseResults, 1)

\* Mutant: a case without any pass is skipped instead of rejecting the run.
caseKeepsSkipNoPass(st) ==
  ~st.hasPassed
  \/ (st.latestPassedTime = st.latestOverallTime /\ st.latestOverallStatus = "passed")

\* Mutant: a case with some pass keeps the run, whatever came after the pass.
caseKeepsAnyPass(st) == st.hasPassed

\* The branch after the inner loop: TRUE sets keepRunID = true, FALSE sets it
\* false and breaks.
caseKeeps(st) ==
  st.hasPassed
  /\ st.latestPassedTime = st.latestOverallTime
  /\ st.latestOverallStatus = "passed"

\* The range over caseStatuses in the iteration order `order`, with its break.
RECURSIVE caseLoop(_, _, _, _)
caseLoop(order, results, i, keepRunID) ==
  IF i > Len(order) THEN keepRunID
  ELSE IF caseKeeps(scanCase(caseStatusesOf(results, order[i])))
         THEN caseLoop(order, results, i + 1, TRUE)
         ELSE FALSE

\* Mutant: no all-passed shortcut, every run goes through the per-case loop.
keepRunNoShortcut(results, order) == caseLoop(order, results, 1, FALSE)

\* Whether the body of the loop over runResults appends the run ID.
keepRun(results, order) ==
  IF allPassed(results) THEN TRUE ELSE caseLoop(order, results, 1, FALSE)

\* Mutant: the accumulator is returned as the map iteration left it.
sortIntsMissing(s) == s

\* sort.Ints
sortInts(s) == SortSeq(s, LAMBDA a, b : a < b)

\* One iteration of the range over runResults: the map yields any key not yet
\* visited, and the inner map is ranged in any order.
ProcessRun(runID) ==
  /\ stage = "filter"
  /\ runID \in todo
  /\ \E order \in Orders(CasesOf(runResultsOf(log, runID))) :
       selectedRunIDs' = IF keepRun(runResultsOf(log, runID), order)
                           THEN Append(selectedRunIDs, runID)
                           ELSE selectedRunIDs
  /\ todo' = todo \ {runID}
  /\ UNCHANGED <<log, stage, outs, filteredTxt, matchVars, completeVars, auxVars>>

\* The end of processResults when the selection engine is run again over the
\* unchanged log: sort, return, and start the second call.
ProcessReturn ==
  /\ stage = "filter"
  /\ todo = {}
  /\ outs' = Append(outs, sortInts(selectedRunIDs))
  /\ selectedRunIDs' = <<>>
  /\ IF Len(outs) = 0
       THEN todo' = RunsOf(log) /\ stage' = stage
       ELSE todo' = {} /\ stage' = "done"
  /\ UNCHANGED <<log, filteredTxt, matchVars, completeVars, auxVars>>

\* The state main starts in: the log is on disk, nothing has run yet.
Init ==
  /\ log \in Logs(MaxLog)
  /\ stage = "filter"
  /\ todo = RunsOf(log)
  /\ selectedRunIDs = <<>>
  /\ outs = <<>>
  /\ filteredTxt = <<>>
  /\ runIDs = <<>>
  /\ mIdx = 1
  /\ wpc = <<>>
  /\ resp = <<>>
  /\ validRunIDs = <<>>
  /\ semaphore = 0
  /\ finalTxt = <<>>
  /\ cRunIDs = <<>>
  /\ cIdx = 1
  /\ completeCalls = <<>>
  /\ errorsTxt = <<>>
  /\ AuxIdle

NextFilter ==
  \/ \E runID \in RunIDs : ProcessRun(runID)
  \/ ProcessReturn

\* The selection engine alone, called twice over the same log.
FilterSpec == Init /\ [][NextFilter]_vars

\* ------------------------------------------------------- run-ID list files
DigitChars == <<"0", "1", "2", "3", "4", "5", "6", "7", "8", "9">>

IsDigit(ch) == \E d \in DOMAIN DigitChars : DigitChars[d] = ch

digitVal(ch) == (CHOOSE d \in DOMAIN DigitChars : DigitChars[d] = ch) - 1

\* The verb %d of fmt for a non-negative int.
RECURSIVE formatInt(_)
formatInt(n) ==
  IF n < 10 THEN <<DigitChars[n + 1]>>
  ELSE formatInt(n \div 10) \o <<DigitChars[(n % 10) + 1]>>

\* strings.Join
RECURSIVE joinStrings(_, _)
joinStrings(parts, sep) ==
  IF Len(parts) = 0 THEN <<>>
  ELSE IF Len(parts) = 1 THEN parts[1]
  ELSE parts[1] \o sep \o joinStrings(Tail(parts), sep)

\* fmt.Sprint of a []int: "[1 2]", and "[]" for the nil slice.
sprintInts(ids) ==
  <<"[">> \o joinStrings([i \in DOMAIN ids |-> formatInt(ids[i])], <<" ">>) \o <<"]">>

\* strings.Split on a one-character separator: the empty string gives one
\* empty part.
RECURSIVE splitFrom(_, _, _, _, _)
splitFrom(str, sep, i, cur, acc) ==
  IF i > Len(str) THEN Append(acc, cur)
  ELSE IF str[i] = sep THEN splitFrom(str, sep, i + 1, <<>>, Append(acc, cur))
  ELSE splitFrom(str, sep, i + 1, Append(cur, str[i]), acc)

split(str, sep) == splitFrom(str, sep, 1, <<>>, <<>>)

\* strings.Fields: the parts between runs of white space, none of them empty.
fields(str) == SelectSeq(split(str, " "), LAMBDA part : part # <<>>)

\* strings.Trim: leading and trailing characters of the cutset removed.
RECURSIVE trimLeft(_, _)
trimLeft(str, cutset) ==
  IF str # <<>> /\ Head(str) \in cutset THEN trimLeft(Tail(str), cutset) ELSE str

RECURSIVE trimRight(_, _)
trimRight(str, cutset) ==
  IF str # <<>> /\ str[Len(str)] \in cutset
    THEN trimRight(SubSeq(str, 1, Len(str) - 1), cutset)
    ELSE str

trim(str, cutset) == trimRight(trimLeft(str, cutset), cutset)

\* strings.TrimSpace
trimSpace(str) == trim(str, {" ", "\n", "\t", "\r"})

\* filter.writeOutput: the text written to the output file.
writeOutput(ids) == trim(joinStrings(fields(sprintInts(ids)), <<",">>), {"[", "]"})

\* match.writeValidRunIDs: the text written to the file.
writeValidRunIDs(strs) == joinStrings(strs, <<",">>)

\* fmt.Sscanf(part, "%d", &id) into a zero id: the leading digits, and 0 when
\* the part starts with no digit (the scan fails and id keeps its zero value).
RECURSIVE scanDigits(_, _, _)
scanDigits(part, i, id) ==
  IF i > Len(part) \/ ~IsDigit(part[i]) THEN id
  ELSE scanDigits(part, i + 1, id * 10 + digitVal(part[i]))

sscanfInt(part) == scanDigits(part, 1, 0)

\* readRunIDs of match and of complete, for a file that exists.
readRunIDs(content) ==
  LET parts == split(trimSpace(content), ",")
  IN  [i \in DOMAIN parts |-> sscanfInt(parts[i])]

\* --------------------------------------------------------- filter.FilterResults
\* The end of FilterResults: processResults sorts and returns, writeOutput
\* writes filtered.txt, and main goes on to MatchResults.
FilterWrite ==
  /\ stage = "filter"
  /\ todo = {}
  /\ outs' = Append(outs, sortInts(selectedRunIDs))
  /\ filteredTxt' = writeOutput(sortInts(selectedRunIDs))
  /\ stage' = "matchStart"
  /\ UNCHANGED <<log, todo, selectedRunIDs, matchVars, completeVars, auxVars>>

\* ----------------------------------------------------------- match.MatchResults
\* Capacity of the semaphore channel.
SemaphoreSize == 5

\* The authoritative case lists the remote service may report.
CaseLists == UNION {[1..k -> CaseIDs] : k \in 0..MaxRemoteCases}

\* What the GET of a run can come to: the transport fails, the body is not
\* JSON, or the body decodes to an APIResponse (Status, Result.Status with 0
\* for in-progress, Result.Cases).
Answer(kind, status, runStatus, cases) ==
  [kind |-> kind, status |-> status, runStatus |-> runStatus, cases |-> cases]

RemoteAnswers ==
  {Answer("transportError", FALSE, 0, <<>>), Answer("badJSON", FALSE, 0, <<>>),
   Answer("ok", FALSE, 0, <<>>), Answer("ok", TRUE, 1, <<>>)}
  \cup {Answer("ok", TRUE, 0, cases) : cases \in CaseLists}

NoAnswer == Answer("none", FALSE, 0, <<>>)

\* Mutant: the remote run status is not looked at.
fetchCasesIgnoringRunStatus(answer) ==
  IF answer.kind = "ok" /\ answer.status
    THEN [cases |-> answer.cases, valid |-> TRUE]
    ELSE [cases |-> <<>>, valid |-> FALSE]

\* fetchCasesForRunID: the pair it returns for the answer the request got.
fetchCasesForRunID(answer) ==
  IF answer.kind = "transportError" THEN [cases |-> <<>>, valid |-> FALSE]
  ELSE IF answer.kind = "badJSON" THEN [cases |-> <<>>, valid |-> FALSE]
  ELSE IF ~answer.status \/ answer.runStatus # 0 THEN [cases |-> <<>>, valid |-> FALSE]
  ELSE [cases |-> answer.cases, valid |-> TRUE]

\* validateRunCases, first loop: latestPassTime[caseID] after the records
\* results[i..]; lpt is its value before them, 0 being the missing entry "".
RECURSIVE latestPassTimeFrom(_, _, _, _, _)
latestPassTimeFrom(runID, caseID, results, i, lpt) ==
  IF i > Len(results) THEN lpt
  ELSE LET result == results[i]
       IN  IF /\ result.runID = runID /\ result.caseID = caseID
              /\ result.status = "passed"
              /\ (lpt = 0 \/ result.endTime > lpt)
             THEN latestPassTimeFrom(runID, caseID, results, i + 1, result.endTime)
             ELSE latestPassTimeFrom(runID, caseID, results, i + 1, lpt)

latestPassTime(runID, caseID, results) == latestPassTimeFrom(runID, caseID, results, 1, 0)

\* validateRunCases: the second loop returns false at a non-passed record that
\* is later than the latest pass of its case; caseIDs is only printed, and
\* foundCases is filled and never read.
validateRunCases(runID, caseIDs, results) ==
  ~\E i \in DOMAIN results :
      /\ results[i].runID = runID
      /\ results[i].status # "passed"
      /\ latestPassTime(runID, results[i].caseID, results) # 0
      /\ results[i].endTime > latestPassTime(runID, results[i].caseID, results)

\* MatchResults up to the loop: the credentials are present, filtered.txt and
\* results.json are read.
MatchStart ==
  /\ stage = "matchStart"
  /\ haveCredentials
  /\ runIDs' = readRunIDs(filteredTxt)
  /\ mIdx' = 1
  /\ wpc' = [i \in DOMAIN runIDs' |-> "idle"]
  /\ resp' = [i \in DOMAIN runIDs' |-> NoAnswer]
  /\ validRunIDs' = <<>>
  /\ semaphore' = 0
  /\ fetchRequests' = [i \in DOMAIN runIDs' |-> 0]
  /\ wakeAt' = [i \in DOMAIN runIDs' |-> 0]
  /\ stage' = "match"
  /\ UNCHANGED <<log, filterVars, finalTxt, completeVars, matchAux, started>>

\* One iteration of the loop: wg.Add, a slot of the semaphore, go func; the
\* goroutine starts its request in the step it is started.
MatchSpawn ==
  /\ stage = "match"
  /\ mIdx <= Len(runIDs)
  /\ semaphore < SemaphoreSize
  /\ semaphore' = semaphore + 1
  /\ wpc' = [wpc EXCEPT ![mIdx] = "fetch"]
  /\ mIdx' = mIdx + 1
  /\ started' = [started EXCEPT !["match"][now] = @ + 1]
  /\ UNCHANGED <<log, stage, filterVars, runIDs, resp, validRunIDs, finalTxt, completeVars,
                 matchAux, fetchRequests, wakeAt>>

\* The goroutine of index i appending to the slice as it was when the
\* goroutines were started, as without mu.
MatchWorkerLostUpdate(i) ==
  /\ stage = "match"
  /\ i \in DOMAIN wpc
  /\ wpc[i] = "fetch"
  /\ \E answer \in RemoteAnswers :
       LET fetched == fetchCasesForRunID(answer)
       IN  /\ resp' = [resp EXCEPT ![i] = answer]
           /\ validRunIDs' =
                IF fetched.valid /\ validateRunCases(runIDs[i], fetched.cases, log)
                  THEN <<formatInt(runIDs[i])>>
                  ELSE validRunIDs
  /\ fetchRequests' = [fetchRequests EXCEPT ![i] = @ + 1]
  /\ wakeAt' = [wakeAt EXCEPT ![i] = now + 1]
  /\ wpc' = [wpc EXCEPT ![i] = "sleep"]
  /\ UNCHANGED <<log, stage, filterVars, runIDs, mIdx, semaphore, finalTxt, completeVars,
                 matchAux, started>>

\* The goroutine of index i up to its sleep: the one request of
\* fetchCasesForRunID returns with some answer, the run is validated against
\* the log and, under mu, appended; the sleep of 200 ms begins.
MatchWorker(i) ==
  /\ stage = "match"
  /\ i \in DOMAIN wpc
  /\ wpc[i] = "fetch"
  /\ \E answer \in RemoteAnswers :
       LET fetched == fetchCasesForRunID(answer)
       IN  /\ resp' = [resp EXCEPT ![i] = answer]
           /\ validRunIDs' =
                IF fetched.valid /\ validateRunCases(runIDs[i], fetched.cases, log)
                  THEN Append(validRunIDs, formatInt(runIDs[i]))
                  ELSE validRunIDs
  /\ fetchRequests' = [fetchRequests EXCEPT ![i] = @ + 1]
  /\ wakeAt' = [wakeAt EXCEPT ![i] = now + 1]
  /\ wpc' = [wpc EXCEPT ![i] = "sleep"]
  /\ UNCHANGED <<log, stage, filterVars, runIDs, mIdx, semaphore, finalTxt, completeVars,
                 matchAux, started>>

\* A goroutine that returns without receiving from the semaphore when its run
\* was not appended.
MatchReleaseLeak(i) ==
  /\ stage = "match"
  /\ i \in DOMAIN wpc
  /\ wpc[i] = "sleep"
  /\ semaphore' = IF formatInt(runIDs[i]) \in Range(validRunIDs) THEN semaphore - 1 ELSE semaphore
  /\ wpc' = [wpc EXCEPT ![i] = "done"]
  /\ wakeAt' = [wakeAt EXCEPT ![i] = 0]
  /\ UNCHANGED <<log, stage, filterVars, runIDs, mIdx, resp, validRunIDs, finalTxt, completeVars,
                 matchAux, fetchRequests, started>>

\* The goroutine of index i after its sleep: the slot is released, wg.Done.
MatchRelease(i) ==
  /\ stage = "match"
  /\ i \in DOMAIN wpc
  /\ wpc[i] = "sleep"
  /\ semaphore' = semaphore - 1
  /\ wpc' = [wpc EXCEPT ![i] = "done"]
  /\ wakeAt' = [wakeAt EXCEPT ![i] = 0]
  /\ UNCHANGED <<log, stage, filterVars, runIDs, mIdx, resp, validRunIDs, finalTxt, completeVars,
                 matchAux, fetchRequests, started>>

\* final.txt is written when the loop is over, without wg.Wait.
MatchWriteNoWait ==
  /\ stage = "match"
  /\ mIdx > Len(runIDs)
  /\ finalTxt' = writeValidRunIDs(validRunIDs)
  /\ stage' = "completeStart"
  /\ UNCHANGED <<log, filterVars, runIDs, mIdx, wpc, resp, validRunIDs, semaphore, completeVars, auxVars>>

\* wg.Wait returns and final.txt is written.
MatchWrite ==
  /\ stage = "match"
  /\ mIdx > Len(runIDs)
  /\ \A i \in DOMAIN wpc : wpc[i] = "done"
  /\ finalTxt' = writeValidRunIDs(validRunIDs)
  /\ stage' = "completeStart"
  /\ UNCHANGED <<log, filterVars, runIDs, mIdx, wpc, resp, validRunIDs, semaphore, completeVars, auxVars>>

\* ------------------------------------------------------- complete.CompleteRuns
\* CompleteRuns reading final.txt whether or not the credentials are present.
CompleteStartNoPreflight ==
  /\ stage = "completeStart"
  /\ cRunIDs' = readRunIDs(finalTxt)
  /\ cIdx' = 1
  /\ stage' = "complete"
  /\ UNCHANGED <<log, filterVars, matchVars, completeCalls, errorsTxt, auxVars>>

\* CompleteRuns up to the loop: the credentials are present, final.txt is read.
CompleteStart ==
  /\ stage = "completeStart"
  /\ haveCredentials
  /\ cRunIDs' = readRunIDs(finalTxt)
  /\ cIdx' = 1
  /\ stage' = "complete"
  /\ UNCHANGED <<log, filterVars, matchVars, completeCalls, errorsTxt, auxVars>>

\* What a call of completeRun can come to: http.NewRequest fails,
\* retryableHTTPRequest returns one of its two errors, the body cannot be
\* read, the body is not JSON, or it decodes to an APIResponse with Status
\* false or true.
CompleteOutcomes ==
  {"requestError", "exhausted", "nonRetryable", "readError", "badJSON",
   "statusFalse", "statusTrue"}

completeRunTrustingBody(o) ==
  IF o = "requestError" THEN FALSE
  ELSE IF o \in {"exhausted", "nonRetryable"} THEN FALSE
  ELSE IF o = "readError" THEN FALSE
  ELSE o \in {"badJSON", "statusTrue"}

completeRun(o) ==
  IF o = "requestError" THEN FALSE
  ELSE IF o \in {"exhausted", "nonRetryable"} THEN FALSE
  ELSE IF o = "readError" THEN FALSE
  ELSE IF o = "badJSON" THEN FALSE
  ELSE o = "statusTrue"

logErrorTruncating(file, runID) == <<runID>>

\* errors.txt is opened with O_APPEND|O_CREATE and gets one more line.
logError(file, runID) == Append(file, runID)

\* One iteration of the loop that ends the loop when completeRun fails.
CompleteStepAbortOnFailure ==
  /\ stage = "complete"
  /\ cIdx <= Len(cRunIDs)
  /\ completeCalls' = Append(completeCalls, cRunIDs[cIdx])
  /\ \E o \in CompleteOutcomes :
       /\ callOutcomes' = Append(callOutcomes, o)
       /\ errorsTxt' = IF completeRun(o) THEN errorsTxt ELSE logError(errorsTxt, cRunIDs[cIdx])
       /\ cIdx' = IF completeRun(o) THEN cIdx + 1 ELSE Len(cRunIDs) + 1
  /\ UNCHANGED <<log, stage, filterVars, matchVars, cRunIDs, completeAux>>

\* One iteration of the loop that writes the run to errors.txt whatever
\* completeRun returned.
CompleteStepLogsAll ==
  /\ stage = "complete"
  /\ cIdx <= Len(cRunIDs)
  /\ completeCalls' = Append(completeCalls, cRunIDs[cIdx])
  /\ \E o \in CompleteOutcomes :
       /\ callOutcomes' = Append(callOutcomes, o)
       /\ errorsTxt' = logError(errorsTxt, cRunIDs[cIdx])
  /\ cIdx' = cIdx + 1
  /\ UNCHANGED <<log, stage, filterVars, matchVars, cRunIDs, completeAux>>

\* One iteration of the loop: the tick, completeRun with any outcome, and
\* logError when it returned false.
CompleteStep ==
  /\ stage = "complete"
  /\ cIdx <= Len(cRunIDs)
  /\ completeCalls' = Append(completeCalls, cRunIDs[cIdx])
  /\ \E o \in CompleteOutcomes :
       /\ callOutcomes' = Append(callOutcomes, o)
       /\ errorsTxt' = IF completeRun(o) THEN errorsTxt ELSE logError(errorsTxt, cRunIDs[cIdx])
  /\ cIdx' = cIdx + 1
  /\ UNCHANGED <<log, stage, filterVars, matchVars, cRunIDs, completeAux>>

\* The loop is over and CompleteRuns returns to main.
CompleteReturn ==
  /\ stage = "complete"
  /\ cIdx > Len(cRunIDs)
  /\ stage' = "done"
  /\ UNCHANGED <<log, filterVars, matchVars, completeVars, auxVars>>

\* ------------------------------------------------------------------ main
Next ==
  \/ \E runID \in RunIDs : ProcessRun(runID)
  \/ FilterWrite
  \/ MatchStart
  \/ MatchSpawn
  \/ \E i \in DOMAIN wpc : MatchWorker(i)
  \/ \E i \in DOMAIN wpc : MatchRelease(i)
  \/ MatchWrite
  \/ CompleteStart
  \/ CompleteStep
  \/ CompleteReturn

\* One execution of the default pipeline of main.
Spec == Init /\ [][Next]_vars

\* The ascending sequence of the elements of S.
Ascending(S) == CHOOSE o \in Orders(S) : \A a, b \in DOMAIN o : a < b => o[a] < o[b]

\* MatchResults called on its own inputs: a filtered.txt that lists any set of
\* run IDs, as writeOutput writes it, and any result log.
InitMatch ==
  /\ log \in Logs(MaxLog)
  /\ stage = "matchStart"
  /\ todo = {}
  /\ selectedRunIDs = <<>>
  /\ outs = <<>>
  /\ filteredTxt \in {writeOutput(Ascending(S)) : S \in SUBSET RunIDs}
  /\ runIDs = <<>>
  /\ mIdx = 1
  /\ wpc = <<>>
  /\ resp = <<>>
  /\ validRunIDs = <<>>
  /\ semaphore = 0
  /\ finalTxt = <<>>
  /\ cRunIDs = <<>>
  /\ cIdx = 1
  /\ completeCalls = <<>>
  /\ errorsTxt = <<>>
  /\ AuxIdle

NextMatch ==
  \/ MatchStart
  \/ MatchSpawn
  \/ \E i \in DOMAIN wpc : MatchWorker(i)
  \/ \E i \in DOMAIN wpc : MatchRelease(i)
  \/ MatchWrite

\* One call of MatchResults.
MatchSpec == InitMatch /\ [][NextMatch]_vars

\* ------------------------------------------------- complete: retried requests
\* Durations are in milliseconds; BackoffFactor 2.0 is the integer 2.
defaultRetryConfig ==
  [MaxRetries |-> 3, InitialDelay |-> 500, MaxDelay |-> 10000,
   BackoffFactor |-> 2, RequestTimeout |-> 30000]

\* The configuration completeRun builds for its request.
completionRetryConfig ==
  [MaxRetries |-> 2, InitialDelay |-> 300, MaxDelay |-> 5000,
   BackoffFactor |-> 2, RequestTimeout |-> 20000]

RetryConfigs == {defaultRetryConfig, completionRetryConfig}

\* The one client every request of the package is sent with.
httpClient == [Timeout |-> defaultRetryConfig.RequestTimeout]

StatusCodes == 100..599

\* What one httpClient.Do comes to: an error and no response, or a response
\* with a status code.
DoOutcomes ==
  {[err |-> TRUE, status |-> 0]} \cup {[err |-> FALSE, status |-> c] : c \in StatusCodes}

isRetryableErrorAny5xx(err, statusCode) ==
  IF err THEN TRUE
  ELSE IF statusCode = 429 THEN TRUE
  ELSE IF statusCode >= 500 THEN TRUE
  ELSE FALSE

isRetryableErrorNo429(err, statusCode) ==
  IF err THEN TRUE
  ELSE IF statusCode \in {500, 502, 503, 504} THEN TRUE
  ELSE FALSE

isRetryableError(err, statusCode) ==
  IF err THEN TRUE
  ELSE IF statusCode = 429 THEN TRUE
  ELSE IF statusCode \in {500, 502, 503, 504} THEN TRUE
  ELSE FALSE

calculateBackoffDelayLinear(att, cfg) ==
  LET delay == cfg.InitialDelay * (att + 1)
  IN IF delay > cfg.MaxDelay THEN cfg.MaxDelay ELSE delay

calculateBackoffDelay(att, cfg) ==
  LET delay == cfg.InitialDelay * (cfg.BackoffFactor ^ att)
  IN IF delay > cfg.MaxDelay THEN cfg.MaxDelay ELSE delay

\* The loop of retryableHTTPRequest going round once more than MaxRetries
\* allows.
RetryDoOneMore ==
  /\ rpc = "do"
  /\ \E o \in DoOutcomes :
       LET n == Len(outcomes) + 1
           e == IF o.err THEN [kind |-> "transport", status |-> 0, at |-> n] ELSE NoError
           st == IF o.err THEN 0 ELSE o.status
       IN /\ outcomes' = Append(outcomes, o)
          /\ lastErr' = e
          /\ respStatus' = st
          /\ attemptTimeout' = httpClient.Timeout
          /\ IF e = NoError /\ st >= 200 /\ st < 300
               THEN /\ rpc' = "returned"
                    /\ ret' = [status |-> st, err |-> NilError]
                    /\ UNCHANGED <<attempt, sleeps>>
             ELSE IF e = NoError /\ ~isRetryableError(FALSE, st)
               THEN /\ rpc' = "returned"
                    /\ ret' = [status |-> st,
                               err |-> [kind |-> "nonRetryable", n |-> st, cause |-> NoError]]
                    /\ UNCHANGED <<attempt, sleeps>>
             ELSE IF attempt < config.MaxRetries + 1
               THEN /\ rpc' = "sleep"
                    /\ sleeps' = Append(sleeps, calculateBackoffDelay(attempt, config))
                    /\ UNCHANGED <<attempt, ret>>
             ELSE /\ rpc' = "returned"
                  /\ attempt' = attempt + 1
                  /\ ret' = [status |-> st,
                             err |-> [kind |-> "exhausted", n |-> config.MaxRetries + 1,
                                      cause |-> e]]
                  /\ UNCHANGED sleeps
  /\ UNCHANGED <<pipeVars, config, classifyVars, restVars>>

\* One pass of the loop of retryableHTTPRequest up to its return or its sleep.
RetryDo ==
  /\ rpc = "do"
  /\ \E o \in DoOutcomes :
       LET n == Len(outcomes) + 1
           e == IF o.err THEN [kind |-> "transport", status |-> 0, at |-> n] ELSE NoError
           st == IF o.err THEN 0 ELSE o.status
       IN /\ outcomes' = Append(outcomes, o)
          /\ lastErr' = e
          /\ respStatus' = st
          /\ attemptTimeout' = httpClient.Timeout
          /\ IF e = NoError /\ st >= 200 /\ st < 300
               THEN /\ rpc' = "returned"
                    /\ ret' = [status |-> st, err |-> NilError]
                    /\ UNCHANGED <<attempt, sleeps>>
             ELSE IF e = NoError /\ ~isRetryableError(FALSE, st)
               THEN /\ rpc' = "returned"
                    /\ ret' = [status |-> st,
                               err |-> [kind |-> "nonRetryable", n |-> st, cause |-> NoError]]
                    /\ UNCHANGED <<attempt, sleeps>>
             ELSE IF attempt < config.MaxRetries
               THEN /\ rpc' = "sleep"
                    /\ sleeps' = Append(sleeps, calculateBackoffDelay(attempt, config))
                    /\ UNCHANGED <<attempt, ret>>
             ELSE /\ rpc' = "returned"
                  /\ attempt' = attempt + 1
                  /\ ret' = [status |-> st,
                             err |-> [kind |-> "exhausted", n |-> config.MaxRetries + 1,
                                      cause |-> e]]
                  /\ UNCHANGED sleeps
  /\ UNCHANGED <<pipeVars, config, classifyVars, restVars>>

\* time.Sleep returns and the loop goes on to its next pass.
RetryWake ==
  /\ rpc = "sleep"
  /\ rpc' = "do"
  /\ attempt' = attempt + 1
  /\ UNCHANGED <<pipeVars, config, lastErr, respStatus, outcomes, sleeps, ret, attemptTimeout,
                 classifyVars, restVars>>

InitRetry ==
  /\ PipeIdle
  /\ ClassifyIdle
  /\ RestIdle
  /\ config \in RetryConfigs
  /\ attemptTimeout = 0
  /\ rpc = "do"
  /\ attempt = 0
  /\ lastErr = NoError
  /\ respStatus = 0
  /\ outcomes = <<>>
  /\ sleeps = <<>>
  /\ ret = NoReturn

NextRetry == RetryDo \/ RetryWake

RetrySpec == InitRetry /\ [][NextRetry]_vars

\* isRetryableError on every pair of arguments.
Classify ==
  /\ ~classifyOut.done
  /\ classifyOut' = [done |-> TRUE,
                     retryable |-> isRetryableError(classifyIn.err, classifyIn.statusCode)]
  /\ UNCHANGED <<pipeVars, retryVars, classifyIn, restVars>>

InitClassify ==
  /\ PipeIdle
  /\ RetryIdle
  /\ RestIdle
  /\ classifyIn \in [err : BOOLEAN, statusCode : {0} \cup StatusCodes]
  /\ classifyOut = [done |-> FALSE, retryable |-> FALSE]

NextClassify == Classify

ClassifySpec == InitClassify /\ [][NextClassify]_vars

\* --------------------------------------------- complete.completeRunsInParallel
\* Capacity of the semaphore channel of completeRunsInParallel.
maxConcurrent == 5

\* completeRunsInParallel up to its loop.
PStart ==
  /\ pStage = "start"
  /\ pStage' = "run"
  /\ pIdx' = 1
  /\ ppc' = [i \in DOMAIN pRunIDs |-> "new"]
  /\ pResult' = [i \in DOMAIN pRunIDs |-> "none"]
  /\ pSem' = 0
  /\ tick' = FALSE
  /\ successCount' = 0
  /\ errorCount' = 0
  /\ UNCHANGED <<pipeVars, retryVars, classifyVars, otherVars, started, wakeAt, execVars, pRunIDs, fetchRequests, callOutcomes>>

\* One iteration of the loop: wg.Add and go func.
PSpawn ==
  /\ pStage = "run"
  /\ pIdx <= Len(pRunIDs)
  /\ ppc' = [ppc EXCEPT ![pIdx] = "wait"]
  /\ pIdx' = pIdx + 1
  /\ UNCHANGED <<pipeVars, retryVars, classifyVars, otherVars, started, wakeAt, execVars, pStage, pRunIDs, pResult, pSem,
                 tick, successCount, errorCount, fetchRequests, callOutcomes>>

\* The ticker of time.Tick puts a tick into its channel of capacity one; a
\* tick that finds the channel full is dropped.
PTick ==
  /\ pStage = "run"
  /\ ~tick
  /\ tick' = TRUE
  /\ UNCHANGED <<pipeVars, retryVars, classifyVars, otherVars, started, wakeAt, execVars, pStage, pRunIDs, pIdx, ppc,
                 pResult, pSem, successCount, errorCount, fetchRequests, callOutcomes>>

\* The goroutine of index i receives from rateLimiter.
PWait(i) ==
  /\ pStage = "run"
  /\ ppc[i] = "wait"
  /\ tick
  /\ tick' = FALSE
  /\ ppc' = [ppc EXCEPT ![i] = "acquire"]
  /\ UNCHANGED <<pipeVars, retryVars, classifyVars, otherVars, started, wakeAt, execVars, pStage, pRunIDs, pIdx, pResult,
                 pSem, successCount, errorCount, fetchRequests, callOutcomes>>

\* The goroutine of index i sends to the semaphore whatever it holds.
PAcquireUnbounded(i) ==
  /\ pStage = "run"
  /\ ppc[i] = "acquire"
  /\ pSem' = pSem + 1
  /\ ppc' = [ppc EXCEPT ![i] = "call"]
  /\ UNCHANGED <<pipeVars, retryVars, classifyVars, otherVars, started, wakeAt, execVars, pStage, pRunIDs, pIdx, pResult,
                 tick, successCount, errorCount, fetchRequests, callOutcomes>>

\* The goroutine of index i sends to the semaphore, which blocks while the
\* channel is full.
PAcquire(i) ==
  /\ pStage = "run"
  /\ ppc[i] = "acquire"
  /\ pSem < maxConcurrent
  /\ pSem' = pSem + 1
  /\ ppc' = [ppc EXCEPT ![i] = "call"]
  /\ UNCHANGED <<pipeVars, retryVars, classifyVars, otherVars, started, wakeAt, execVars, pStage, pRunIDs, pIdx, pResult,
                 tick, successCount, errorCount, fetchRequests, callOutcomes>>

\* The call of completeRun by the goroutine of index i returns.
PCall(i) ==
  /\ pStage = "run"
  /\ ppc[i] = "call"
  /\ \E o \in CompleteOutcomes : pResult' = [pResult EXCEPT ![i] = o]
  /\ ppc' = [ppc EXCEPT ![i] = "report"]
  /\ UNCHANGED <<pipeVars, retryVars, classifyVars, otherVars, started, wakeAt, execVars, pStage, pRunIDs, pIdx, pSem,
                 tick, successCount, errorCount, fetchRequests, callOutcomes>>

\* The goroutine of index i counts from the values the counters had when the
\* goroutines were started, as without mu.
PReportLostUpdate(i) ==
  /\ pStage = "run"
  /\ ppc[i] = "report"
  /\ IF completeRun(pResult[i])
       THEN /\ successCount' = 1
            /\ UNCHANGED <<errorCount, errorsTxt>>
       ELSE /\ errorCount' = 1
            /\ errorsTxt' = logError(errorsTxt, pRunIDs[i])
            /\ UNCHANGED successCount
  /\ ppc' = [ppc EXCEPT ![i] = "release"]
  /\ UNCHANGED <<log, stage, filterVars, matchVars, cRunIDs, cIdx, completeCalls,
                 retryVars, classifyVars, otherVars, started, wakeAt, execVars, pStage, pRunIDs,
                 pIdx, pResult, pSem, tick, fetchRequests, callOutcomes>>

\* The goroutine of index i between mu.Lock and mu.Unlock.
PReport(i) ==
  /\ pStage = "run"
  /\ ppc[i] = "report"
  /\ IF completeRun(pResult[i])
       THEN /\ successCount' = successCount + 1
            /\ UNCHANGED <<errorCount, errorsTxt>>
       ELSE /\ errorCount' = errorCount + 1
            /\ errorsTxt' = logError(errorsTxt, pRunIDs[i])
            /\ UNCHANGED successCount
  /\ ppc' = [ppc EXCEPT ![i] = "release"]
  /\ UNCHANGED <<log, stage, filterVars, matchVars, cRunIDs, cIdx, completeCalls,
                 retryVars, classifyVars, otherVars, started, wakeAt, execVars, pStage, pRunIDs, pIdx, pResult, pSem, tick,
                 fetchRequests, callOutcomes>>

\* The deferred calls of the goroutine of index i: the slot is given back,
\* wg.Done.
PRelease(i) ==
  /\ pStage = "run"
  /\ ppc[i] = "release"
  /\ pSem' = pSem - 1
  /\ ppc' = [ppc EXCEPT ![i] = "done"]
  /\ UNCHANGED <<pipeVars, retryVars, classifyVars, otherVars, started, wakeAt, execVars, pStage, pRunIDs, pIdx, pResult,
                 tick, successCount, errorCount, fetchRequests, callOutcomes>>

\* wg.Wait returns and the summary is printed.
PSummary ==
  /\ pStage = "run"
  /\ pIdx > Len(pRunIDs)
  /\ \A i \in DOMAIN ppc : ppc[i] = "done"
  /\ pStage' = "summary"
  /\ UNCHANGED <<pipeVars, retryVars, classifyVars, otherVars, started, wakeAt, execVars, pRunIDs, pIdx, ppc, pResult, pSem,
                 tick, successCount, errorCount, fetchRequests, callOutcomes>>

\* ------------------------------------------------ the completion stage alone
\* Executions of the program that share one errors.txt.
MaxExecutions == 2

\* The default pipeline is run again and comes to CompleteRuns with the same
\* final.txt; errors.txt is as the execution before left it.
RerunCompleteRuns ==
  /\ stage = "done"
  /\ executions < MaxExecutions
  /\ executions' = executions + 1
  /\ ledgerBase' = Len(errorsTxt)
  /\ stage' = "completeStart"
  /\ cRunIDs' = <<>>
  /\ cIdx' = 1
  /\ completeCalls' = <<>>
  /\ callOutcomes' = <<>>
  /\ UNCHANGED <<log, filterVars, matchVars, errorsTxt, retryVars, classifyVars, parVars,
                 otherVars, started, wakeAt, fetchRequests>>

\* The program is run again with --complete-all and finds the same runs in
\* progress; errors.txt is as the execution before left it.
RerunCompleteAll ==
  /\ pStage = "summary"
  /\ executions < MaxExecutions
  /\ executions' = executions + 1
  /\ ledgerBase' = Len(errorsTxt)
  /\ pStage' = "start"
  /\ pIdx' = 1
  /\ ppc' = <<>>
  /\ pResult' = <<>>
  /\ pSem' = 0
  /\ tick' = FALSE
  /\ successCount' = 0
  /\ errorCount' = 0
  /\ UNCHANGED <<pipeVars, retryVars, classifyVars, otherVars, started, wakeAt, pRunIDs,
                 fetchRequests, callOutcomes>>

\* What final.txt holds when MatchResults has confirmed the runs of o in
\* that order.
finalTxtOf(o) == writeValidRunIDs([k \in DOMAIN o |-> formatInt(o[k])])

\* CompleteRuns on a final.txt that lists any run IDs in any order, or
\* completeRunsInParallel on any list of runs fetchAllInProgressRuns found (it
\* is not called with an empty list).
InitCompletion ==
  /\ log = <<>>
  /\ todo = {}
  /\ selectedRunIDs = <<>>
  /\ outs = <<>>
  /\ filteredTxt = <<>>
  /\ runIDs = <<>>
  /\ mIdx = 1
  /\ wpc = <<>>
  /\ resp = <<>>
  /\ validRunIDs = <<>>
  /\ semaphore = 0
  /\ cRunIDs = <<>>
  /\ cIdx = 1
  /\ completeCalls = <<>>
  /\ errorsTxt = <<>>
  /\ RetryIdle
  /\ ClassifyIdle
  /\ OtherIdle
  /\ executions = 1
  /\ ledgerBase = 0
  /\ fetchRequests = <<>>
  /\ callOutcomes = <<>>
  /\ pIdx = 1
  /\ ppc = <<>>
  /\ pResult = <<>>
  /\ pSem = 0
  /\ tick = FALSE
  /\ successCount = 0
  /\ errorCount = 0
  /\ \/ /\ stage = "completeStart"
        /\ finalTxt \in {finalTxtOf(o) : o \in UNION {Orders(S) : S \in SUBSET RunIDs}}
        /\ pStage = "idle"
        /\ pRunIDs = <<>>
     \/ /\ stage = "idle"
        /\ finalTxt = <<>>
        /\ pStage = "start"
        /\ pRunIDs \in UNION {Orders(S) : S \in SUBSET RunIDs \ {{}}}

NextCompletion ==
  \/ CompleteStart
  \/ CompleteStep
  \/ CompleteReturn
  \/ RerunCompleteRuns
  \/ PStart
  \/ PSpawn
  \/ PTick
  \/ \E i \in DOMAIN ppc : PWait(i)
  \/ \E i \in DOMAIN ppc : PAcquire(i)
  \/ \E i \in DOMAIN ppc : PCall(i)
  \/ \E i \in DOMAIN ppc : PReport(i)
  \/ \E i \in DOMAIN ppc : PRelease(i)
  \/ PSummary
  \/ RerunCompleteAll

\* The completion stage, by either entry, executed up to MaxExecutions times.
CompletionSpec == InitCompletion /\ [][NextCompletion]_vars

\* ------------------------------------------------------ the two worker pools
\* Runs handed to a pool: more than the pool has slots.
MaxPoolRuns == 6

\* The answer to a fetch the pool is run with: the run is reported in
\* progress with no cases, and is appended under mu; the goroutine gives its
\* slot back in the same way after every answer.
PoolAnswers == {Answer("ok", TRUE, 0, <<>>)}

\* The outcome of completeRun the pool is run with; the goroutine gives its
\* slot back in the same way after every outcome.
PoolOutcomes == {"statusTrue"}

\* MatchResults on a filtered.txt of 1..n, or completeRunsInParallel on the
\* runs 1..n, for every n up to MaxPoolRuns.
InitPool ==
  /\ log = <<>>
  /\ todo = {}
  /\ selectedRunIDs = <<>>
  /\ outs = <<>>
  /\ runIDs = <<>>
  /\ mIdx = 1
  /\ wpc = <<>>
  /\ resp = <<>>
  /\ validRunIDs = <<>>
  /\ semaphore = 0
  /\ finalTxt = <<>>
  /\ cRunIDs = <<>>
  /\ cIdx = 1
  /\ completeCalls = <<>>
  /\ errorsTxt = <<>>
  /\ RetryIdle
  /\ ClassifyIdle
  /\ OtherIdle
  /\ executions = 1
  /\ ledgerBase = 0
  /\ fetchRequests = <<>>
  /\ callOutcomes = <<>>
  /\ pIdx = 1
  /\ ppc = <<>>
  /\ pResult = <<>>
  /\ pSem = 0
  /\ tick = FALSE
  /\ successCount = 0
  /\ errorCount = 0
  /\ \E n \in 1..MaxPoolRuns :
       \/ /\ stage = "matchStart"
          /\ filteredTxt = writeOutput([k \in 1..n |-> k])
          /\ pStage = "idle"
          /\ pRunIDs = <<>>
       \/ /\ stage = "idle"
          /\ filteredTxt = <<>>
          /\ pStage = "start"
          /\ pRunIDs = [k \in 1..n |-> k]

NextPool ==
  \/ MatchStart
  \/ MatchSpawn
  \/ \E i \in DOMAIN wpc : MatchWorker(i) /\ resp'[i] \in PoolAnswers
  \/ \E i \in DOMAIN wpc : MatchRelease(i)
  \/ MatchWrite
  \/ PStart
  \/ PSpawn
  \/ PTick
  \/ \E i \in DOMAIN ppc : PWait(i)
  \/ \E i \in DOMAIN ppc : PAcquire(i)
  \/ \E i \in DOMAIN ppc : PCall(i) /\ pResult'[i] \in PoolOutcomes
  \/ \E i \in DOMAIN ppc : PReport(i)
  \/ \E i \in DOMAIN ppc : PRelease(i)
  \/ PSummary

\* One call of MatchResults or of completeRunsInParallel on a long list.
PoolSpec == InitPool /\ [][NextPool]_vars

\* ------------------------------------------------- main with both of its modes
\* FetchResults: without the credentials it returns at once; with them it
\* sends its requests and results.json is what FilterResults reads next.
FetchResults ==
  /\ stage = "fetch"
  /\ fetchCalls' = IF haveCredentials THEN fetchCalls + 1 ELSE fetchCalls
  /\ stage' = "filter"
  /\ UNCHANGED <<log, filterVars, matchVars, completeVars, retryVars, classifyVars, execVars,
                 parVars, haveCredentials, listCalls, tripVars, pageVars, clockVars, fetchRequests,
                 callOutcomes, started, wakeAt>>

\* MatchResults without the credentials: it prints and returns.
MatchAbort ==
  /\ stage = "matchStart"
  /\ ~haveCredentials
  /\ stage' = "completeStart"
  /\ UNCHANGED <<log, filterVars, matchVars, completeVars, auxVars>>

\* CompleteRuns without the credentials: it prints and returns.
CompleteAbort ==
  /\ stage = "completeStart"
  /\ ~haveCredentials
  /\ stage' = "done"
  /\ UNCHANGED <<log, filterVars, matchVars, completeVars, auxVars>>

\* CompleteAllInProgressRuns without the credentials: it prints and returns.
CompleteAllAbort ==
  /\ pStage = "all"
  /\ ~haveCredentials
  /\ pStage' = "returned"
  /\ UNCHANGED <<pipeVars, retryVars, classifyVars, otherVars, started, wakeAt, execVars,
                 pRunIDs, pIdx, ppc, pResult, pSem, tick, successCount, errorCount,
                 fetchRequests, callOutcomes>>

\* CompleteAllInProgressRuns with the credentials: fetchAllInProgressRuns
\* sends its requests and returns some list of runs; an empty list ends the
\* call, any other is handed to completeRunsInParallel.
CompleteAllFetch ==
  /\ pStage = "all"
  /\ haveCredentials
  /\ listCalls' = listCalls + 1
  /\ \E runs \in UNION {Orders(S) : S \in SUBSET RunIDs} :
       /\ pRunIDs' = runs
       /\ pStage' = IF runs = <<>> THEN "returned" ELSE "start"
  /\ UNCHANGED <<pipeVars, retryVars, classifyVars, execVars, pIdx, ppc, pResult, pSem, tick,
                 successCount, errorCount, haveCredentials, fetchCalls, tripVars, pageVars, clockVars,
                 fetchRequests, callOutcomes, started, wakeAt>>

\* main is started, with or without --complete-all, with or without the
\* credentials in its environment, on any results.json left in its directory.
InitMain ==
  /\ log \in Logs(MaxLog)
  /\ todo = RunsOf(log)
  /\ selectedRunIDs = <<>>
  /\ outs = <<>>
  /\ filteredTxt = <<>>
  /\ runIDs = <<>>
  /\ mIdx = 1
  /\ wpc = <<>>
  /\ resp = <<>>
  /\ validRunIDs = <<>>
  /\ semaphore = 0
  /\ finalTxt = <<>>
  /\ cRunIDs = <<>>
  /\ cIdx = 1
  /\ completeCalls = <<>>
  /\ errorsTxt = <<>>
  /\ RetryIdle
  /\ ClassifyIdle
  /\ executions = 1
  /\ ledgerBase = 0
  /\ fetchRequests = <<>>
  /\ callOutcomes = <<>>
  /\ pRunIDs = <<>>
  /\ pIdx = 1
  /\ ppc = <<>>
  /\ pResult = <<>>
  /\ pSem = 0
  /\ tick = FALSE
  /\ successCount = 0
  /\ errorCount = 0
  /\ haveCredentials \in BOOLEAN
  /\ fetchCalls = 0
  /\ listCalls = 0
  /\ tripIn = <<>>
  /\ tripOut = [done |-> FALSE, filtered |-> <<>>, final |-> <<>>]
  /\ now = 0
  /\ started = NoneStarted
  /\ wakeAt = <<>>
  /\ cTick = FALSE
  /\ callIdx = 0
  /\ callPhase = "inCall"
  /\ callAttempts = 0
  /\ callWake = 0
  /\ PageIdle
  /\ \/ stage = "fetch" /\ pStage = "idle"
     \/ stage = "idle" /\ pStage = "all" /\ log = <<>>

NextMain ==
  \/ FetchResults
  \/ \E runID \in RunIDs : ProcessRun(runID)
  \/ FilterWrite
  \/ MatchAbort
  \/ MatchStart
  \/ MatchSpawn
  \/ \E i \in DOMAIN wpc : MatchWorker(i)
  \/ \E i \in DOMAIN wpc : MatchRelease(i)
  \/ MatchWrite
  \/ CompleteAbort
  \/ CompleteStart
  \/ CompleteStep
  \/ CompleteReturn
  \/ CompleteAllAbort
  \/ CompleteAllFetch
  \/ PStart
  \/ PSpawn
  \/ PTick
  \/ \E i \in DOMAIN ppc : PWait(i)
  \/ \E i \in DOMAIN ppc : PAcquire(i)
  \/ \E i \in DOMAIN ppc : PCall(i)
  \/ \E i \in DOMAIN ppc : PReport(i)
  \/ \E i \in DOMAIN ppc : PRelease(i)
  \/ PSummary

\* One execution of main.
MainSpec == InitMain /\ [][NextMain]_vars

\* ------------------------------------- the two stages of the pipeline in time
\* Time is counted in steps of StepMs milliseconds, the period of the ticker of
\* CompleteRuns and the sleep of a goroutine of MatchResults.
StepMs == 200

\* The requests per second the default pipeline is documented to stay under.
RequestsPerSecond == 5

\* The steps in a window of one second.
WindowSteps == 1000 \div StepMs

\* A sleep of d milliseconds lasts at least this many steps.
StepsOf(d) == (d + StepMs - 1) \div StepMs

\* The answer to a fetch the stage is timed with: the run is reported complete
\* already and is not appended; a request is started and a slot held in the
\* same way for every answer.
RateAnswers == {Answer("ok", TRUE, 1, <<>>)}

\* The steps MatchResults is followed for; CompleteRuns is followed for
\* MaxClock steps.
MaxMatchClock == 2

\* A step of time passes, up to the last step followed; the ticker of
\* CompleteRuns fires, and its tick is dropped when the one before it has not
\* been received.
Advance ==
  /\ stage \in {"match", "complete"}
  /\ now < (IF stage = "match" THEN MaxMatchClock ELSE MaxClock)
  /\ now' = now + 1
  /\ cTick' = IF stage = "complete" THEN TRUE ELSE cTick
  /\ UNCHANGED <<pipeVars, retryVars, classifyVars, execVars, parVars, envVars, tripVars, pageVars,
                 callIdx, callPhase, callAttempts, callWake, fetchRequests, callOutcomes,
                 started, wakeAt>>

\* CompleteRuns receives a tick and calls completeRun, which sends its first
\* request.
RateCallStart ==
  /\ stage = "complete"
  /\ cIdx <= Len(cRunIDs)
  /\ callIdx < cIdx
  /\ cTick
  /\ cTick' = FALSE
  /\ callIdx' = cIdx
  /\ callPhase' = "inCall"
  /\ callAttempts' = 1
  /\ started' = [started EXCEPT !["complete"][now] = @ + 1]
  /\ UNCHANGED <<pipeVars, retryVars, classifyVars, execVars, parVars, envVars, tripVars, pageVars,
                 now, callWake, fetchRequests, callOutcomes, wakeAt>>

\* The request fails in a way that is retried and retryableHTTPRequest goes to
\* sleep for its backoff delay.
RateCallFail ==
  /\ stage = "complete"
  /\ callIdx = cIdx
  /\ callPhase = "inCall"
  /\ callAttempts - 1 < completionRetryConfig.MaxRetries
  /\ callPhase' = "backoff"
  /\ callWake' = now + StepsOf(calculateBackoffDelay(callAttempts - 1, completionRetryConfig))
  /\ UNCHANGED <<pipeVars, retryVars, classifyVars, execVars, parVars, envVars, tripVars, pageVars,
                 now, cTick, callIdx, callAttempts, fetchRequests, callOutcomes, started,
                 wakeAt>>

\* The sleep is over and the request is sent again.
RateRetry ==
  /\ stage = "complete"
  /\ callIdx = cIdx
  /\ callPhase = "backoff"
  /\ now >= callWake
  /\ callPhase' = "inCall"
  /\ callAttempts' = callAttempts + 1
  /\ started' = [started EXCEPT !["complete"][now] = @ + 1]
  /\ UNCHANGED <<pipeVars, retryVars, classifyVars, execVars, parVars, envVars, tripVars, pageVars,
                 now, cTick, callIdx, callWake, fetchRequests, callOutcomes, wakeAt>>

\* completeRun returns: with true after an answer of status true, or with
\* false when the last request allowed has failed as well.
RateCallReturn ==
  /\ callIdx = cIdx
  /\ callPhase = "inCall"
  /\ CompleteStep
  /\ callOutcomes'[Len(callOutcomes')] \in
       IF callAttempts = completionRetryConfig.MaxRetries + 1
         THEN {"statusTrue", "exhausted"}
         ELSE {"statusTrue"}

\* MatchResults on a filtered.txt of 1..n, or CompleteRuns on a final.txt of
\* 1..n, for every n up to MaxPoolRuns, from the moment the stage begins.
InitRate ==
  /\ log = <<>>
  /\ todo = {}
  /\ selectedRunIDs = <<>>
  /\ outs = <<>>
  /\ runIDs = <<>>
  /\ mIdx = 1
  /\ wpc = <<>>
  /\ resp = <<>>
  /\ validRunIDs = <<>>
  /\ semaphore = 0
  /\ cRunIDs = <<>>
  /\ cIdx = 1
  /\ completeCalls = <<>>
  /\ errorsTxt = <<>>
  /\ RetryIdle
  /\ ClassifyIdle
  /\ OtherIdle
  /\ executions = 1
  /\ ledgerBase = 0
  /\ fetchRequests = <<>>
  /\ callOutcomes = <<>>
  /\ pStage = "idle"
  /\ pRunIDs = <<>>
  /\ pIdx = 1
  /\ ppc = <<>>
  /\ pResult = <<>>
  /\ pSem = 0
  /\ tick = FALSE
  /\ successCount = 0
  /\ errorCount = 0
  /\ \E n \in 1..MaxPoolRuns :
       \/ /\ stage = "matchStart"
          /\ filteredTxt = writeOutput([k \in 1..n |-> k])
          /\ finalTxt = <<>>
       \/ /\ stage = "completeStart"
          /\ filteredTxt = <<>>
          /\ finalTxt = finalTxtOf([k \in 1..n |-> k])

NextRate ==
  \/ Advance
  \/ MatchStart
  \/ MatchSpawn
  \/ \E i \in DOMAIN wpc : MatchWorker(i) /\ resp'[i] \in RateAnswers
  \/ \E i \in DOMAIN wpc : MatchRelease(i) /\ wakeAt[i] <= now
  \/ MatchWrite
  \/ CompleteStart /\ runIDs = <<>>
  \/ RateCallStart
  \/ RateCallFail
  \/ RateRetry
  \/ RateCallReturn
  \/ CompleteReturn

\* One stage of the default pipeline on a long list, with the time it takes;
\* each stage is followed from its own beginning.
RateSpec == InitRate /\ [][NextRate]_vars

\* -------------------------------- a list of run IDs written and read back
\* The longest list written and the largest run ID in it.
MaxTripLen == 3

MaxTripID == 12

TripLists == UNION {[1..n -> 1..MaxTripID] : n \in 0..MaxTripLen}

\* The list is written to filtered.txt by writeOutput and read by readRunIDs
\* of match; it is written to final.txt by MatchResults (each ID formatted
\* with %d, writeValidRunIDs) and read by readRunIDs of complete.
RoundTrip ==
  /\ ~tripOut.done
  /\ tripOut' = [done |-> TRUE,
                 filtered |-> readRunIDs(writeOutput(tripIn)),
                 final |-> readRunIDs(finalTxtOf(tripIn))]
  /\ UNCHANGED <<pipeVars, retryVars, classifyVars, execVars, parVars, envVars, clockVars,
                 pageVars, tripIn, fetchRequests, callOutcomes, started, wakeAt>>

InitTrip ==
  /\ PipeIdle
  /\ RetryIdle
  /\ ClassifyIdle
  /\ ParIdle
  /\ executions = 1
  /\ ledgerBase = 0
  /\ fetchRequests = <<>>
  /\ callOutcomes = <<>>
  /\ haveCredentials = TRUE
  /\ fetchCalls = 0
  /\ listCalls = 0
  /\ tripIn \in TripLists
  /\ tripOut = [done |-> FALSE, filtered |-> <<>>, final |-> <<>>]
  /\ now = 0
  /\ started = NoneStarted
  /\ wakeAt = <<>>
  /\ cTick = FALSE
  /\ callIdx = 0
  /\ callPhase = "inCall"
  /\ callAttempts = 0
  /\ callWake = 0
  /\ PageIdle

NextTrip == RoundTrip

\* Any list of run IDs written to a file and read back.
TripSpec == InitTrip /\ [][NextTrip]_vars

\* --------------------------------------------- the two pools up to their end
\* Lists of up to this many runs get every answer and every outcome below, in
\* every combination; longer lists, which fill the semaphore, get the
\* answer and the outcome of PoolSpec.
MaxVariedRuns == 3

\* The answers to a fetch: the run is in progress and is appended, the call
\* fails in transport, the run is complete already and is rejected.
LiveAnswers ==
  {Answer("ok", TRUE, 0, <<>>), Answer("transportError", FALSE, 0, <<>>),
   Answer("ok", TRUE, 1, <<>>)}

\* The outcomes of completeRun: success, the retries used up, a response with
\* status false.
LiveOutcomes == {"statusTrue", "exhausted", "statusFalse"}

NextLivePool ==
  \/ MatchStart
  \/ MatchSpawn
  \/ \E i \in DOMAIN wpc :
       /\ MatchWorker(i)
       /\ resp'[i] \in IF Len(runIDs) <= MaxVariedRuns THEN LiveAnswers ELSE PoolAnswers
  \/ \E i \in DOMAIN wpc : MatchRelease(i)
  \/ MatchWrite
  \/ PStart
  \/ PSpawn
  \/ PTick
  \/ \E i \in DOMAIN ppc : PWait(i)
  \/ \E i \in DOMAIN ppc : PAcquire(i)
  \/ \E i \in DOMAIN ppc :
       /\ PCall(i)
       /\ pResult'[i] \in IF Len(pRunIDs) <= MaxVariedRuns THEN LiveOutcomes ELSE PoolOutcomes
  \/ \E i \in DOMAIN ppc : PReport(i)
  \/ \E i \in DOMAIN ppc : PRelease(i)
  \/ PSummary

\* One call of MatchResults or of completeRunsInParallel in which every remote
\* call returns, the ticker keeps ticking and a goroutine that can run does:
\* a step that is possible is taken in the end.
LivePoolSpec == InitPool /\ [][NextLivePool]_vars /\ WF_vars(NextLivePool)

\* One execution of the default pipeline in which main and its goroutines
\* keep running and every remote call returns: a step that is possible is
\* taken in the end.
FairSpec == Init /\ [][Next]_vars /\ WF_vars(Next)

\* ------------------------------------------- complete.fetchAllInProgressRuns
\* The page size of the requests (100 in the source) and the number of pages
\* whose offsets are told apart: every offset from MaxPages pages on is the
\* same offset here, and the service holds at most MaxPages full pages of runs.
limit == 2

MaxPages == 2

maxConsecutiveFailures == 3

\* RunsAPIResponse.Result.Entities: the ID and the Status of each run.
RunEntries == [ID : RunIDs, Status : {0, 1}]

Pages == UNION {[1..n -> RunEntries] : n \in 0..limit}

\* What one pass of the loop can come to: http.NewRequest fails,
\* retryableHTTPRequest returns an error, the body cannot be read, the body is
\* not JSON, or it decodes to a RunsAPIResponse with Status false or true.
PageAnswers ==
  {[kind |-> k, entities |-> <<>>] :
     k \in {"requestError", "requestFailed", "readError", "badJSON", "statusFalse"}}
  \cup {[kind |-> "page", entities |-> e] : e \in Pages}

\* The IDs of the entities with Status 0, in the order of the page.
inProgressIDs(entities) ==
  LET inProgress == SelectSeq(entities, LAMBDA run : run.Status = 0)
  IN [k \in DOMAIN inProgress |-> inProgress[k].ID]

\* offset += limit
nextOffset(o) == IF o < MaxPages THEN o + 1 ELSE MaxPages

\* fetchAllInProgressRuns up to its loop.
FetchAllStart ==
  /\ fpc = "idle"
  /\ fpc' = "loop"
  /\ offset' = 0
  /\ consecutiveFailures' = 0
  /\ allInProgressRuns' = <<>>
  /\ UNCHANGED <<pageAnswer, pipeVars, retryVars, classifyVars, execVars, parVars, envVars,
                 tripVars, clockVars, fetchRequests, callOutcomes, started, wakeAt>>

\* One pass of the loop. http.NewRequest fails for a URL it cannot parse, in
\* every pass alike, so it fails in this pass only if it has in all before.
FetchPage ==
  /\ fpc = "loop"
  /\ \E a \in PageAnswers :
       /\ a.kind = "requestError" => pageAnswer.kind \in {"none", "requestError"}
       /\ a.kind # "requestError" => pageAnswer.kind # "requestError"
       /\ (a.kind = "page" /\ Len(a.entities) = limit) => offset < MaxPages
       /\ pageAnswer' = a
       /\ IF a.kind = "requestError"
            THEN /\ consecutiveFailures' = consecutiveFailures + 1
                 /\ fpc' = IF consecutiveFailures' >= maxConsecutiveFailures
                             THEN "returned" ELSE "loop"
                 /\ UNCHANGED <<offset, allInProgressRuns>>
          ELSE IF a.kind = "requestFailed"
            THEN /\ consecutiveFailures' = consecutiveFailures + 1
                 /\ IF consecutiveFailures' >= maxConsecutiveFailures
                      THEN fpc' = "returned" /\ UNCHANGED offset
                      ELSE fpc' = "loop" /\ offset' = nextOffset(offset)
                 /\ UNCHANGED allInProgressRuns
          ELSE IF a.kind \in {"readError", "badJSON", "statusFalse"}
            THEN /\ consecutiveFailures' = 0
                 /\ offset' = nextOffset(offset)
                 /\ UNCHANGED <<fpc, allInProgressRuns>>
          ELSE /\ consecutiveFailures' = 0
               /\ allInProgressRuns' = allInProgressRuns \o inProgressIDs(a.entities)
               /\ IF Len(a.entities) < limit
                    THEN fpc' = "returned" /\ UNCHANGED offset
                    ELSE fpc' = "loop" /\ offset' = nextOffset(offset)
  /\ UNCHANGED <<pipeVars, retryVars, classifyVars, execVars, parVars, envVars, tripVars,
                 clockVars, fetchRequests, callOutcomes, started, wakeAt>>

InitPage == PipeIdle /\ AuxIdle

NextPage ==
  \/ FetchAllStart
  \/ FetchPage

\* One call of fetchAllInProgressRuns in which every request comes to an end
\* and the goroutine keeps running: a pass that is possible is taken.
PageSpec == InitPage /\ [][NextPage]_vars /\ WF_vars(NextPage)

\* --------------------------------------- processResults on a longer log
\* Records of the log processResults is called with on its own.
MaxSelectLog == 3

\* FilterResults called on any log of up to MaxSelectLog records.
InitSelect ==
  /\ log \in Logs(MaxSelectLog)
  /\ stage = "filter"
  /\ todo = RunsOf(log)
  /\ selectedRunIDs = <<>>
  /\ outs = <<>>
  /\ filteredTxt = <<>>
  /\ runIDs = <<>>
  /\ mIdx = 1
  /\ wpc = <<>>
  /\ resp = <<>>
  /\ validRunIDs = <<>>
  /\ semaphore = 0
  /\ finalTxt = <<>>
  /\ cRunIDs = <<>>
  /\ cIdx = 1
  /\ completeCalls = <<>>
  /\ errorsTxt = <<>>
  /\ AuxIdle

NextSelect ==
  \/ \E runID \in RunIDs : ProcessRun(runID)
  \/ FilterWrite

\* One call of FilterResults.
SelectSpec == InitSelect /\ [][NextSelect]_vars

\* ------------------------------------------------- claims on processResults
\* The records of run r and case c in the log.
RecordsOf(r, c) == {i \in DOMAIN log : log[i].runID = r /\ log[i].caseID = c}

CasesOfRun(r) == {log[i].caseID : i \in {j \in DOMAIN log : log[j].runID = r}}

NoPassingRecord(r, c) == \A i \in RecordsOf(r, c) : log[i].status # "passed"

AllPassingRecords(r, c) == \A i \in RecordsOf(r, c) : log[i].status = "passed"

HasNonPassed(r) == \E i \in DOMAIN log : log[i].runID = r /\ log[i].status # "passed"

Selected(k, r) == r \in Range(outs[k])

\* C1 (single-failure veto): a run with a case that has no record with status
\* passed is in no output of processResults, whatever its other cases hold.
C1_SingleFailureVeto ==
  \A k \in DOMAIN outs : \A r \in RunsOf(log) :
    (\E c \in CasesOfRun(r) : NoPassingRecord(r, c)) => ~Selected(k, r)

\* A finished call over a run with one case without a pass and another case
\* that is fully passing.
C1_Witness ==
  /\ Len(outs) >= 1
  /\ \E r \in RunsOf(log) : \E c, d \in CasesOfRun(r) :
       c # d /\ NoPassingRecord(r, c) /\ AllPassingRecords(r, d)

\* Within each case of run r the end times are pairwise distinct and non-empty.
DistinctTimes(r) ==
  /\ \A i \in DOMAIN log : log[i].runID = r => log[i].endTime # 0
  /\ \A c \in CasesOfRun(r) : \A i, j \in RecordsOf(r, c) :
       i # j => log[i].endTime # log[j].endTime

\* The record of (r, c) with the greatest end time has status passed.
LatestIsPassed(r, c) ==
  \E i \in RecordsOf(r, c) :
    /\ log[i].status = "passed"
    /\ \A j \in RecordsOf(r, c) : log[j].endTime <= log[i].endTime

\* C2 (latest-wins): a run with a non-passed record and distinct, non-empty
\* end times within each case is selected exactly when the latest record of
\* every one of its cases has status passed.
C2_LatestWins ==
  \A k \in DOMAIN outs : \A r \in RunsOf(log) :
    (HasNonPassed(r) /\ DistinctTimes(r))
      => (Selected(k, r) <=> \A c \in CasesOfRun(r) : LatestIsPassed(r, c))

\* A finished call that selected a run whose case failed at T1 and passed at
\* T2 > T1.
C2_Witness ==
  /\ Len(outs) >= 1
  /\ \E r \in RunsOf(log) :
       /\ HasNonPassed(r) /\ DistinctTimes(r) /\ Selected(1, r)
       /\ \E c \in CasesOfRun(r) : \E i, j \in RecordsOf(r, c) :
            /\ log[i].status = "failed" /\ log[j].status = "passed"
            /\ log[i].endTime < log[j].endTime

\* C3 (all-passed shortcut): a run all of whose records have status passed is
\* in the output, whatever the end times of its records are.
C3_AllPassedShortcut ==
  \A k \in DOMAIN outs : \A r \in RunsOf(log) :
    ~HasNonPassed(r) => Selected(k, r)

\* A finished call over an all-passed run that has a record with an empty end
\* time and two records of one case that are equal in time or out of order.
C3_Witness ==
  /\ Len(outs) >= 1
  /\ \E r \in RunsOf(log) :
       /\ ~HasNonPassed(r)
       /\ \E i, j \in DOMAIN log :
            /\ i < j /\ log[i].runID = r /\ log[j].runID = r
            /\ log[i].caseID = log[j].caseID
            /\ log[j].endTime = 0 /\ log[j].endTime <= log[i].endTime

\* Case c of run r has a passed and a non-passed record with the same end
\* time, and no record of the case is later.
TieAtLatest(r, c) ==
  \E i, j \in RecordsOf(r, c) :
    /\ log[i].status = "passed" /\ log[j].status # "passed"
    /\ log[i].endTime = log[j].endTime
    /\ \A m \in RecordsOf(r, c) : log[m].endTime <= log[i].endTime

\* The log with its records permuted by p.
PermutedLog(p) == [i \in DOMAIN log |-> log[p[i]]]

\* C9 (tie-break determinism): when a passed and a non-passed record of a case
\* tie at the case's latest end time, the verdict on the run is the same for
\* every order of the records in the log.
C9_TieBreakDeterminism ==
  \A k \in DOMAIN outs : \A r \in RunsOf(log) :
    (\E c \in CasesOfRun(r) : TieAtLatest(r, c)) =>
      \A p \in Permutations(DOMAIN log) :
        \A order \in Orders(CasesOfRun(r)) :
          Selected(k, r) <=> keepRun(runResultsOf(PermutedLog(p), r), order)

\* C10 (idempotent re-run): the second call of processResults over the
\* unchanged log returns the sequence the first call returned, whatever order
\* the maps were ranged in.
C10_IdempotentRerun == Len(outs) = 2 => outs[1] = outs[2]

\* Two finished calls that selected two runs.
C10_Witness == Len(outs) = 2 /\ Len(outs[1]) >= 2


\* C11 (sorted, deduplicated output): every sequence processResults returns is
\* strictly ascending in run ID, so it holds each selected run ID once,
\* however many records the run has.
C11_OutputStrictlyAscending ==
  \A k \in DOMAIN outs : \A a, b \in DOMAIN outs[k] : a < b => outs[k][a] < outs[k][b]

\* The first call returned two run IDs, and the second call holds them in its
\* accumulator in descending order, as the map range yielded them.
C11_Witness ==
  /\ Len(outs) = 1 /\ Len(outs[1]) = 2
  /\ Len(selectedRunIDs) = 2 /\ selectedRunIDs[1] > selectedRunIDs[2]

\* The first call selected a run that has two records in the log.
C11_WitnessManyRecords ==
  /\ Len(outs) >= 1
  /\ \E r \in RunsOf(log) : Selected(1, r) /\ Len(runResultsOf(log, r)) >= 2

\* ------------------------------------------------- claims on the pipeline
\* MatchResults has written final.txt.
MatchDone == stage \in {"completeStart", "complete", "done"}

\* The fetch of index i got an answer with response status true and the
\* remote run status 0.
FetchedInProgress(i) ==
  resp[i].kind = "ok" /\ resp[i].status /\ resp[i].runStatus = 0

\* The run of index i is among the run IDs written to final.txt.
Confirmed(i) == formatInt(runIDs[i]) \in Range(split(finalTxt, ","))

\* Occurrences of case c in the authoritative list.
RemoteCount(cases, c) == Cardinality({k \in DOMAIN cases : cases[k] = c})

\* C4 (validation count check): a run of the log is written to final.txt only
\* if the log holds, for every case ID of the authoritative list, at least as
\* many records of that run and case as the list has occurrences of the case
\* ID.
C4_ValidationCountCheck ==
  MatchDone =>
    \A i \in DOMAIN runIDs :
      (runIDs[i] \in RunsOf(log) /\ Confirmed(i)) =>
        \A c \in Range(resp[i].cases) :
          Cardinality(RecordsOf(runIDs[i], c)) >= RemoteCount(resp[i].cases, c)

\* C5 (validation latest-passing check): a run of the log is written to
\* final.txt only if, for every case ID of the authoritative list that has a
\* local record of the run, the local record of that run and case with the
\* latest end time has status passed.
C5_ValidationLatestPassing ==
  MatchDone =>
    \A i \in DOMAIN runIDs :
      (runIDs[i] \in RunsOf(log) /\ Confirmed(i)) =>
        \A c \in Range(resp[i].cases) :
          RecordsOf(runIDs[i], c) # {} => LatestIsPassed(runIDs[i], c)

C7_OneWayPipeline ==
  /\ \A k \in DOMAIN completeCalls : formatInt(completeCalls[k]) \in Range(validRunIDs)
  /\ \A k \in DOMAIN errorsTxt : formatInt(errorsTxt[k]) \in Range(validRunIDs)
  /\ \A i \in DOMAIN runIDs : wpc[i] # "idle" => runIDs[i] \in Range(outs[1])

\* C8 (deterministic confirmed output): the run IDs of final.txt, as the
\* completion stage reads them, are in ascending numeric order.
C8_FinalAscending ==
  stage \in {"complete", "done"} =>
    \A a, b \in DOMAIN cRunIDs : a < b => cRunIDs[a] < cRunIDs[b]

\* ------------------------------------------------- claims on retried requests
RetryableStatuses == {429, 500, 502, 503, 504}

\* C12 (terminal failures are not retried): a request is sent again only after
\* a transport error or a retryable status; a response with any other status
\* ends the call at once, with no sleep after it, with no error for a 2xx
\* status and with an error otherwise.
C12_TerminalNotRetried ==
  \A k \in DOMAIN outcomes :
    LET o == outcomes[k]
        retryable == o.err \/ o.status \in RetryableStatuses
    IN /\ k < Len(outcomes) => retryable
       /\ ~retryable =>
            /\ k = Len(outcomes)
            /\ rpc = "returned"
            /\ Len(sleeps) = k - 1
            /\ ret.status = o.status
            /\ (ret.err.kind = "nil") = (o.status \in 200..299)
            /\ o.status \notin 200..299 => ret.err.kind = "nonRetryable" /\ ret.err.n = o.status

\* A terminal status ends the call after one retried failure.
C12_Witness ==
  /\ rpc = "returned" /\ Len(outcomes) = 2
  /\ outcomes[2].status = 404 /\ ret.err.kind = "nonRetryable"

\* A 2xx status ends the call after one retried failure.
C12_WitnessSuccess ==
  /\ rpc = "returned" /\ Len(outcomes) = 2
  /\ outcomes[2].status = 200 /\ ret.err.kind = "nil"

\* C13 (retry classification): isRetryableError is true exactly for a
\* transport error and for the statuses 429, 500, 502, 503 and 504.
C13_RetryClassification ==
  classifyOut.done =>
    (classifyOut.retryable <=>
       (classifyIn.err \/ classifyIn.statusCode \in RetryableStatuses))

C13_Witness ==
  /\ classifyOut.done /\ classifyOut.retryable
  /\ ~classifyIn.err /\ classifyIn.statusCode = 429

\* C14 (exhaustion reporting): the error returned when the attempts are used
\* up carries the failure of the last attempt, a transport error or a
\* retryable HTTP status alike.
C14_ExhaustionCarriesLastFailure ==
  (rpc = "returned" /\ ret.err.kind = "exhausted") =>
    LET n == Len(outcomes)
        o == outcomes[n]
    IN /\ n = config.MaxRetries + 1
       /\ ret.err.n = n
       /\ IF o.err THEN ret.err.cause = [kind |-> "transport", status |-> 0, at |-> n]
          ELSE ret.err.cause.kind # "nil" /\ ret.err.cause.status = o.status

\* The part of C14 on transport errors.
C14_TransportPart ==
  (rpc = "returned" /\ ret.err.kind = "exhausted" /\ outcomes[Len(outcomes)].err) =>
    ret.err.cause = [kind |-> "transport", status |-> 0, at |-> Len(outcomes)]

\* C15 (backoff schedule): the k-th sleep (k from 0) lasts
\* min(InitialDelay * BackoffFactor^k, MaxDelay); there is exactly one sleep
\* between two consecutive attempts and none after the last attempt or after
\* a terminal outcome; the delays never decrease and never exceed MaxDelay.
C15_BackoffSchedule ==
  /\ \A k \in DOMAIN sleeps :
       LET d == config.InitialDelay * config.BackoffFactor ^ (k - 1)
       IN /\ sleeps[k] = IF d < config.MaxDelay THEN d ELSE config.MaxDelay
          /\ sleeps[k] <= config.MaxDelay
          /\ k > 1 => sleeps[k - 1] <= sleeps[k]
  /\ rpc = "do" => Len(sleeps) = Len(outcomes) /\ attempt = Len(outcomes)
  /\ rpc = "sleep" => Len(sleeps) = Len(outcomes) /\ attempt = Len(outcomes) - 1
  /\ rpc = "returned" => Len(sleeps) = Len(outcomes) - 1
  /\ Len(outcomes) <= config.MaxRetries + 1
  /\ Len(sleeps) <= config.MaxRetries

\* All attempts of the default configuration are used up.
C15_Witness ==
  /\ rpc = "returned" /\ ret.err.kind = "exhausted"
  /\ config = defaultRetryConfig /\ sleeps = <<500, 1000, 2000>>

\* ------------------------------------------ claims on retries and attempts
\* C16 (transient failures are retried in every stage): a case-list fetch of
\* the validation stage that fails in transport is sent again under the
\* default policy, so a run whose fetch ended in a transport error has had
\* MaxRetries + 1 requests sent for it.
C16_TransientRetriedEverywhere ==
  \A i \in DOMAIN runIDs :
    (runIDs[i] \in RunsOf(log) /\ wpc[i] \in {"sleep", "done"}
       /\ resp[i].kind = "transportError")
      => fetchRequests[i] = defaultRetryConfig.MaxRetries + 1

\* C18 (every run is attempted): CompleteRuns has called completeRun once for
\* each position of its list it has passed, in order, whatever the earlier
\* calls came to, and for the whole list when it returns; MatchResults has
\* sent one fetch for every run ID of its list and judged it once when it
\* writes final.txt.
C18_EveryRunAttemptedOnce ==
  /\ stage \in {"complete", "done"} =>
       /\ completeCalls = SubSeq(cRunIDs, 1, cIdx - 1)
       /\ Len(callOutcomes) = Len(completeCalls)
  /\ stage = "done" => completeCalls = cRunIDs
  /\ stage = "match" => \A i \in DOMAIN runIDs : fetchRequests[i] <= 1
  /\ stage \in {"completeStart", "complete", "done"} =>
       \A i \in DOMAIN runIDs :
         /\ wpc[i] = "done"
         /\ fetchRequests[i] = 1
         /\ resp[i] # NoAnswer
  /\ \A a, b \in DOMAIN validRunIDs : validRunIDs[a] = validRunIDs[b] => a = b

\* CompleteRuns has returned; its first call ran out of attempts and its
\* second call was made all the same.
C18_Witness ==
  /\ stage = "done"
  /\ Len(cRunIDs) = 2 /\ Len(completeCalls) = 2
  /\ callOutcomes[1] = "exhausted"

\* MatchResults has returned; one fetch failed in transport and another run
\* was fetched and confirmed.
C18_WitnessValidation ==
  /\ stage = "completeStart"
  /\ \E i, j \in DOMAIN runIDs :
       /\ resp[i].kind = "transportError"
       /\ Confirmed(j)

\* ------------------------------------------------------ claims on the ledger
\* The lines this execution has added to errors.txt.
ThisExecution == SubSeq(errorsTxt, ledgerBase + 1, Len(errorsTxt))

\* Occurrences of x in the sequence s.
Count(s, x) == Cardinality({k \in DOMAIN s : s[k] = x})

C17_WitnessParallel ==
  /\ pStage = "summary" /\ Len(pRunIDs) = 2
  /\ pResult = <<"statusTrue", "nonRetryable">>
  /\ ThisExecution = <<pRunIDs[2]>>

\* C19 (ledger append-only): every step leaves errors.txt as it is or adds
\* one line at its end; no line is removed, changed or moved, within an
\* execution and from one execution to the next.
C19_LedgerAppendOnly ==
  [][\/ errorsTxt' = errorsTxt
     \/ \E id \in Range(cRunIDs) \cup Range(pRunIDs) : errorsTxt' = Append(errorsTxt, id)]_vars

\* Run 1 failed in two executions and errors.txt holds two lines for it.
C19_Witness ==
  /\ executions = 2
  /\ errorsTxt = <<1, 1>>
  /\ ledgerBase = 1

\* --------------------------------------------------- claims on the worker pools
\* C20 (bounded concurrency): at most 5 case-list fetches of MatchResults and
\* at most 5 completion calls of completeRunsInParallel are under way at any
\* time, however many runs there are and however the goroutines interleave.
C20_BoundedConcurrency ==
  /\ Cardinality({i \in DOMAIN wpc : wpc[i] = "fetch"}) <= 5
  /\ Cardinality({i \in DOMAIN ppc : ppc[i] = "call"}) <= 5

\* completeRunsInParallel has six runs: five calls are under way and the
\* sixth goroutine waits for a slot.
C20_Witness ==
  /\ Len(pRunIDs) = 6
  /\ Cardinality({i \in DOMAIN ppc : ppc[i] = "call"}) = 5
  /\ \E i \in DOMAIN ppc : ppc[i] = "acquire"

\* MatchResults has six runs: five fetches are under way and the loop waits
\* for a slot to start the sixth.
C20_WitnessMatch ==
  /\ Len(runIDs) = 6
  /\ Cardinality({i \in DOMAIN wpc : wpc[i] = "fetch"}) = 5
  /\ mIdx = 6

\* ------------------------------------------------------------ claims on main
\* C21 (stage barrier): final.txt is written only when every goroutine
\* MatchResults started has finished, nothing of the completion stage has
\* happened before that write, CompleteRuns works on what it read from the
\* final.txt so written, and completeRunsInParallel reaches its summary only
\* when every goroutine it started has finished.
C21_StageBarrier ==
  /\ stage \in {"fetch", "filter", "matchStart", "match"} =>
       /\ finalTxt = <<>>
       /\ cRunIDs = <<>>
       /\ completeCalls = <<>>
  /\ stage \in {"completeStart", "complete", "done"} =>
       /\ mIdx > Len(runIDs)
       /\ \A i \in DOMAIN runIDs : wpc[i] = "done"
       /\ semaphore = 0
       /\ haveCredentials => finalTxt = writeValidRunIDs(validRunIDs)
  /\ (stage \in {"complete", "done"} /\ haveCredentials) => cRunIDs = readRunIDs(finalTxt)
  /\ pStage = "summary" =>
       /\ pIdx > Len(pRunIDs)
       /\ \A i \in DOMAIN pRunIDs : ppc[i] = "done"
       /\ pSem = 0

\* CompleteRuns is in its loop after a validation of two runs, one of them
\* confirmed.
C21_Witness ==
  /\ stage = "complete"
  /\ Len(runIDs) = 2
  /\ Len(validRunIDs) = 1
  /\ Len(completeCalls) = 1

\* completeRunsInParallel prints its summary for two runs.
C21_WitnessParallel ==
  /\ pStage = "summary"
  /\ Len(pRunIDs) = 2

C23_PreFlight ==
  ~haveCredentials =>
    /\ fetchCalls = 0
    /\ listCalls = 0
    /\ fetchRequests = <<>>
    /\ started = NoneStarted
    /\ completeCalls = <<>>
    /\ callOutcomes = <<>>
    /\ pRunIDs = <<>>
    /\ \A i \in DOMAIN pResult : pResult[i] = "none"
    /\ errorsTxt = <<>>

\* The default pipeline has gone through all four stages without the
\* credentials, on a results file that selects a run.
C23_Witness ==
  /\ ~haveCredentials
  /\ stage = "done"
  /\ Len(filteredTxt) > 0

\* The complete-all mode has returned without the credentials.
C23_WitnessAll ==
  /\ ~haveCredentials
  /\ pStage = "returned"

\* The requests a stage has started in the n steps from step k on.
RECURSIVE StartedIn(_, _, _)
StartedIn(s, k, n) ==
  IF n = 0 \/ k > MaxClock THEN 0 ELSE started[s][k] + StartedIn(s, k + 1, n - 1)

\* C24 (rate ceiling of the default pipeline): in the validation stage and in
\* the completion stage no more than 5 requests are started within any window
\* of one second, whatever the number of runs and however fast the answers.
C24_RateCeiling ==
  \A s \in {"match", "complete"} : \A k \in Steps :
    StartedIn(s, k, WindowSteps) <= RequestsPerSecond

\* The part of C24 on the validation stage alone.
C24_MatchCeiling ==
  \A k \in Steps : StartedIn("match", k, WindowSteps) <= RequestsPerSecond

\* The part of C24 on the completion stage alone.
C24_CompleteCeiling ==
  \A k \in Steps : StartedIn("complete", k, WindowSteps) <= RequestsPerSecond

\* C25 (conservative completion profile): a completion call has strictly
\* fewer retries than the default profile allows, and the timeout each of its
\* attempts is sent with is the completion profile's RequestTimeout, strictly
\* shorter than the default one.
C25_ConservativeProfile ==
  /\ completionRetryConfig.MaxRetries < defaultRetryConfig.MaxRetries
  /\ (config = completionRetryConfig /\ Len(outcomes) >= 1) =>
       /\ attemptTimeout = completionRetryConfig.RequestTimeout
       /\ attemptTimeout < defaultRetryConfig.RequestTimeout

\* The part of C25 on the number of retries: a completion call never sends
\* as many requests as the default profile allows.
C25_FewerRetries ==
  /\ completionRetryConfig.MaxRetries < defaultRetryConfig.MaxRetries
  /\ config = completionRetryConfig => Len(outcomes) < defaultRetryConfig.MaxRetries + 1

\* An attempt that retryableHTTPRequest does not return on: a transport error
\* or a status that isRetryableError accepts.
FailsRetryably(o) == o.err \/ isRetryableError(FALSE, o.status)

\* C27 (retry budget): one call of retryableHTTPRequest sends the request at
\* most MaxRetries + 1 times, and exactly that many times when every attempt
\* has failed retryably; a call made by completeRun sends at most 3 POSTs.
C27_RetryBudget ==
  /\ Len(outcomes) <= config.MaxRetries + 1
  /\ (rpc = "returned" /\ \A k \in DOMAIN outcomes : FailsRetryably(outcomes[k])) =>
       /\ Len(outcomes) = config.MaxRetries + 1
       /\ ret.err.kind = "exhausted"
  /\ config = completionRetryConfig => Len(outcomes) <= 3

\* A completion call has returned after three attempts that all failed
\* retryably, one of them by its status.
C27_Witness ==
  /\ config = completionRetryConfig
  /\ rpc = "returned"
  /\ Len(outcomes) = 3
  /\ \A k \in DOMAIN outcomes : FailsRetryably(outcomes[k])
  /\ \E k \in DOMAIN outcomes : ~outcomes[k].err

\* The goroutine of index j has found its run valid: the fetch was valid and
\* validateRunCases returned true.
FoundValid(j) ==
  LET fetched == fetchCasesForRunID(resp[j])
  IN fetched.valid /\ validateRunCases(runIDs[j], fetched.cases, log)

\* C28 (confirmed accumulator): when MatchResults has finished, final.txt
\* holds each run ID of the input once for every occurrence of it in the input
\* whose goroutine found it valid, and not at all when none did, in every
\* interleaving of the goroutines; it holds nothing else.
C28_NoLostOrDuplicatedUpdate ==
  stage = "completeStart" =>
    /\ \A i \in DOMAIN runIDs :
         Count(split(finalTxt, ","), formatInt(runIDs[i]))
           = Cardinality({j \in DOMAIN runIDs : runIDs[j] = runIDs[i] /\ FoundValid(j)})
    /\ Len(validRunIDs) = Cardinality({j \in DOMAIN runIDs : FoundValid(j)})
    /\ finalTxt = writeValidRunIDs(validRunIDs)

\* MatchResults has finished with both runs of its input found valid, the
\* second appended before the first.
C28_Witness ==
  /\ stage = "completeStart"
  /\ Len(runIDs) = 2
  /\ FoundValid(1) /\ FoundValid(2)
  /\ validRunIDs = <<formatInt(runIDs[2]), formatInt(runIDs[1])>>

\* C29 (run-ID list round trip): for every sequence of run IDs, the empty one
\* included, readRunIDs returns the sequence that was written, from filtered.txt
\* as writeOutput writes it and from final.txt as writeValidRunIDs writes it,
\* with no element added and no token read as 0.
C29_RoundTrip ==
  tripOut.done =>
    /\ tripOut.filtered = tripIn
    /\ tripOut.final = tripIn

\* The part of C29 on the lists that are not empty.
C29_NonEmptyRoundTrip ==
  (tripOut.done /\ tripIn # <<>>) =>
    /\ tripOut.filtered = tripIn
    /\ tripOut.final = tripIn

\* What is read back for the empty list, from either file.
C29_EmptyReadsZero ==
  (tripOut.done /\ tripIn = <<>>) =>
    /\ tripOut.filtered = <<0>>
    /\ tripOut.final = <<0>>

\* MatchResults is past wg.Wait, or completeRunsInParallel is.
PastWait == stage = "completeStart" \/ pStage = "summary"

\* C30 (worker pools terminate with all slots released): MatchResults and
\* completeRunsInParallel get past wg.Wait for every number of runs, and
\* from then on no slot of the semaphore is held, whether the goroutines
\* succeeded, had their call fail or rejected their run.
C30_PoolsTerminate ==
  /\ <>PastWait
  /\ [](stage = "completeStart" => semaphore = 0 /\ \A i \in DOMAIN wpc : wpc[i] = "done")
  /\ [](pStage = "summary" => pSem = 0 /\ \A i \in DOMAIN ppc : ppc[i] = "done")

\* MatchResults is past wg.Wait on a list longer than the semaphore, every
\* slot given back.
C30_Witness ==
  /\ stage = "completeStart"
  /\ Len(runIDs) = MaxPoolRuns
  /\ MaxPoolRuns > SemaphoreSize
  /\ semaphore = 0

\* MatchResults is past wg.Wait after a failed call, a rejected run and an
\* appended one.
C30_WitnessPaths ==
  /\ stage = "completeStart"
  /\ Len(runIDs) = 3
  /\ \E i, j, k \in DOMAIN resp :
       /\ resp[i].kind = "transportError"
       /\ resp[j].kind = "ok" /\ resp[j].runStatus = 1
       /\ FoundValid(k)
  /\ semaphore = 0

\* completeRunsInParallel is past wg.Wait on a list longer than the
\* semaphore, every slot given back.
C30_WitnessParallel ==
  /\ pStage = "summary"
  /\ Len(pRunIDs) = MaxPoolRuns
  /\ MaxPoolRuns > maxConcurrent
  /\ pSem = 0

\* The run of index i was selected from the log, the remote service reports
\* it in progress, and the log holds for every case of the authoritative list
\* as many records of the run as the list has occurrences of the case, the
\* latest of them passed.
Eligible(i) ==
  /\ runIDs[i] \in Range(selectedRunIDs)
  /\ FetchedInProgress(i)
  /\ \A c \in Range(resp[i].cases) :
       /\ Cardinality(RecordsOf(runIDs[i], c)) >= RemoteCount(resp[i].cases, c)
       /\ LatestIsPassed(runIDs[i], c)

\* The calls of completeRun for the run id all reported success.
ReportedSuccess(id) ==
  \A k \in DOMAIN completeCalls : completeCalls[k] = id => callOutcomes[k] = "statusTrue"

\* C26 (end-to-end progress): the pipeline comes to its end, and by then a
\* run that was selected, is in progress remotely and has its authoritative
\* cases met by passing latest records has been handed to completeRun
\* exactly once; when that call reported success the run has no line in
\* errors.txt.
C26_EndToEndProgress ==
  /\ <>(stage = "done")
  /\ [](stage = "done" =>
          \A i \in DOMAIN runIDs :
            Eligible(i) =>
              /\ Count(completeCalls, runIDs[i]) = 1
              /\ ReportedSuccess(runIDs[i]) => Count(errorsTxt, runIDs[i]) = 0)

\* The pipeline has ended for a run with two authoritative cases, each met
\* by a passed record, whose completion reported success.
C26_Witness ==
  /\ stage = "done"
  /\ \E i \in DOMAIN runIDs :
       /\ Eligible(i)
       /\ Len(resp[i].cases) = 2
       /\ Count(completeCalls, runIDs[i]) = 1
       /\ ReportedSuccess(runIDs[i])
       /\ Count(errorsTxt, runIDs[i]) = 0

\* What the latest pass of the loop has added to the list is the IDs of the
\* runs its answer reports with status 0.
OnlyInProgressAppended ==
  allInProgressRuns' =
    IF fpc = "loop" /\ pageAnswer'.kind = "page"
      THEN allInProgressRuns \o inProgressIDs(pageAnswer'.entities)
      ELSE IF fpc = "idle" THEN <<>> ELSE allInProgressRuns

\* C31 (pagination terminates): fetchAllInProgressRuns returns in the end
\* whatever the remote service answers, also when it keeps answering with
\* status false or an unparsable body or when its requests keep failing, and
\* its list holds only IDs of runs reported with status 0.
C31_PaginationTerminates ==
  /\ <>(fpc = "returned")
  /\ [][OnlyInProgressAppended]_vars

\* The part of C31 on the list: only IDs reported with status 0 are appended.
C31_OnlyInProgress == [][OnlyInProgressAppended]_vars

\* The part of C31 on a service whose requests keep failing:
\* fetchAllInProgressRuns returns unless some answer arrives in the end.
C31_FailuresTerminate ==
  [](fpc = "loop" => <>(fpc = "returned" \/ pageAnswer.kind \notin {"none", "requestError", "requestFailed"}))

\* The part of C31 on consecutive failures: after maxConsecutiveFailures
\* failed requests in a row the loop is left.
C31_ThreeFailuresStop ==
  /\ consecutiveFailures <= maxConsecutiveFailures
  /\ consecutiveFailures = maxConsecutiveFailures => fpc = "returned"

\* Every record of run r and case c has status passed.
AllPassedCase(r, c) == \A i \in RecordsOf(r, c) : log[i].status = "passed"

\* The case c of run r passes the check processResults makes after its inner
\* loop.
PassesLatestCheck(r, c) == caseKeeps(scanCase(caseStatusesOf(runResultsOf(log, r), c)))

\* C32 (all-passed cases are neutral): a run with a non-passed record that
\* processResults has gone through is selected exactly when each of its cases
\* that has a non-passed record passes the latest-record check; a case whose
\* records are all passed does not reject it, whatever their end times.
C32_AllPassedCaseNeverRejects ==
  \A r \in RunsOf(log) \ todo :
    HasNonPassed(r) =>
      (r \in Range(selectedRunIDs)
         <=> \A c \in CasesOfRun(r) : AllPassedCase(r, c) \/ PassesLatestCheck(r, c))

\* The part of C32 on all-passed cases that have a record with an end time.
C32_TimedAllPassedCase ==
  \A r \in RunsOf(log) \ todo :
    (HasNonPassed(r)
       /\ \A c \in CasesOfRun(r) :
            AllPassedCase(r, c) => \E i \in RecordsOf(r, c) : log[i].endTime # 0) =>
      (r \in Range(selectedRunIDs)
         <=> \A c \in CasesOfRun(r) : AllPassedCase(r, c) \/ PassesLatestCheck(r, c))

\* An all-passed case none of whose records has an end time does not pass the
\* check and the run is not selected.
C32_UntimedAllPassedCaseRejects ==
  \A r \in RunsOf(log) \ todo :
    (HasNonPassed(r)
       /\ \E c \in CasesOfRun(r) :
            AllPassedCase(r, c) /\ \A i \in RecordsOf(r, c) : log[i].endTime = 0) =>
      r \notin Range(selectedRunIDs)

=============================================================================
